---- MODULE Spec2Model ----
(***************************************************************************)
(* Model of the canary certificate-transparency detector: the rule        *)
(* expression parser and evaluator (internal/rules), the webhook handler   *)
(* and rule reload (internal/handlers), the match channel and the          *)
(* persistence workers (internal/database) and the shutdown sequence of    *)
(* main.                                                                   *)
(*                                                                         *)
(* Strings of the program are sequences of one-character strings, so that  *)
(* substring search, lower-casing and tokenizing are computed, not assumed.*)
(***************************************************************************)
EXTENDS Integers, Sequences, FiniteSets, TLC

(***************************************************************************)
(* Bounds of the model.                                                    *)
(***************************************************************************)
MaxRules == 2        \* entries of a rule file of the evaluation specification
NumHandlers == 2     \* webhook requests served at the same time
MaxRequests == 2     \* webhook requests served in all
ChanCap == 1         \* capacity of config.MatchChan (10000 in main)
NumWorkers == 2      \* persistence workers (4 in main)
BatchSize == 2       \* batchSize of StartWorkers (200 in main)
MaxRecentMatches == 2 \* config.MaxRecentMatches (500 in config)
NumAdmins == 2       \* admin mutation requests, each served once
TicksPerDay == 2     \* clock ticks of one calendar day
MaxClock == 3        \* the last tick of the clock
MaxStoreRequests == 3 \* webhook requests of the store specification
MaxLimit == 2        \* the largest page size asked for
MaxPage == 3         \* pages are asked for at the offsets 0, L, ..., MaxPage * L
NumClients == 2      \* concurrent requests to /matches, /matches/clear and /metrics
MaxPushes == 3       \* records pushed to the recent cache between two clears
MaxTokens == 5       \* tokens of the expressions that are parsed
SweepDay == 31       \* the day on which the program starts in the retention runs

(***************************************************************************)
(* strings                                                                 *)
(***************************************************************************)
\* strings.ToLower on the characters of the model alphabet
ToLowerCh(c) ==
    IF c = "A" THEN "a" ELSE IF c = "B" THEN "b" ELSE IF c = "C" THEN "c"
    ELSE IF c = "D" THEN "d" ELSE IF c = "N" THEN "n" ELSE IF c = "O" THEN "o"
    ELSE IF c = "R" THEN "r" ELSE IF c = "T" THEN "t" ELSE c

ToLower(s) == [i \in 1..Len(s) |-> ToLowerCh(s[i])]

\* strings.Contains(s, sub)
Contains(s, sub) ==
    \E i \in 0..(Len(s) - Len(sub)) : SubSeq(s, i + 1, i + Len(sub)) = sub

IsSpace(c) == c \in {" ", "\t", "\n"}

\* strings.TrimSpace
RECURSIVE TrimLeft(_)
TrimLeft(s) ==
    IF s # <<>> /\ IsSpace(Head(s)) THEN TrimLeft(Tail(s)) ELSE s

RECURSIVE TrimRight(_)
TrimRight(s) ==
    IF s # <<>> /\ IsSpace(s[Len(s)]) THEN TrimRight(SubSeq(s, 1, Len(s) - 1)) ELSE s

TrimSpace(s) == TrimRight(TrimLeft(s))

\* the elements of a sequence
Range(s) == {s[i] : i \in 1..Len(s)}

\* all orders in which the elements of a set can be enumerated (Go map iteration)
Orderings(S) ==
    {f \in [1..Cardinality(S) -> S] : \A x \in S : \E i \in 1..Cardinality(S) : f[i] = x}

(***************************************************************************)
(* expression parser                                                       *)
(***************************************************************************)
AndTok == <<"A", "N", "D">>
OrTok == <<"O", "R">>
NotTok == <<"N", "O", "T">>
LParen == <<"(">>
RParen == <<")">>

\* tokenize: the loop over the bytes of the trimmed expression; cur is the
\* strings.Builder, toks the tokens so far
RECURSIVE tokenizeFrom(_, _, _, _)
tokenizeFrom(expr, i, cur, toks) ==
    IF i > Len(expr)
    THEN IF cur # <<>> THEN Append(toks, cur) ELSE toks
    ELSE IF expr[i] \in {"(", ")"}
    THEN tokenizeFrom(expr, i + 1, <<>>,
             Append(IF cur # <<>> THEN Append(toks, cur) ELSE toks, <<expr[i]>>))
    ELSE IF IsSpace(expr[i])
    THEN tokenizeFrom(expr, i + 1, <<>>, IF cur # <<>> THEN Append(toks, cur) ELSE toks)
    ELSE tokenizeFrom(expr, i + 1, Append(cur, expr[i]), toks)

tokenize(expr) == tokenizeFrom(TrimSpace(expr), 1, <<>>, <<>>)

\* tokenStream.peek: the empty string at the end of the stream
peek(toks, pos) == IF pos > Len(toks) THEN <<>> ELSE toks[pos]

isEOF(toks, pos) == pos > Len(toks)

\* expressions are tuples: <<"kw", k>>, <<"not", e>>, <<"and", l, r>>, <<"or", l, r>>
KeywordExpr(k) == <<"kw", k>>
NotExpr(e) == <<"not", e>>
AndExpr(l, r) == <<"and", l, r>>
OrExpr(l, r) == <<"or", l, r>>

ParseOk(e, pos) == [ok |-> TRUE, e |-> e, pos |-> pos]
ParseErr(pos) == [ok |-> FALSE, e |-> <<>>, pos |-> pos]

RECURSIVE parseOr(_, _)
RECURSIVE parseOrLoop(_, _, _)
RECURSIVE parseAnd(_, _)
RECURSIVE parseAndLoop(_, _, _)
RECURSIVE parseNot(_, _)
RECURSIVE parsePrimary(_, _)

\* parsePrimary after the parenthesized expression r has been parsed
parsePrimaryClose(toks, r) ==
    IF ~r.ok THEN r
    ELSE IF peek(toks, r.pos) # RParen THEN ParseErr(r.pos)
    ELSE ParseOk(r.e, r.pos + 1)

parsePrimary(toks, pos) ==
    IF peek(toks, pos) = <<>> THEN ParseErr(pos)
    ELSE IF peek(toks, pos) = LParen THEN parsePrimaryClose(toks, parseOr(toks, pos + 1))
    ELSE IF peek(toks, pos) = RParen THEN ParseErr(pos)
    ELSE IF "(" \in Range(peek(toks, pos)) \/ ")" \in Range(peek(toks, pos))
    THEN ParseErr(pos + 1)
    ELSE ParseOk(KeywordExpr(ToLower(peek(toks, pos))), pos + 1)

\* parseNot after the operand r of NOT has been parsed
parseNotWrap(r) == IF ~r.ok THEN r ELSE ParseOk(NotExpr(r.e), r.pos)

\* a parseNot whose operand is a primary: NOT does not chain
parseNotPrimary(toks, pos) ==
    IF peek(toks, pos) = NotTok
    THEN parseNotWrap(parsePrimary(toks, pos + 1))
    ELSE parsePrimary(toks, pos)

parseNot(toks, pos) ==
    IF peek(toks, pos) = NotTok
    THEN parseNotWrap(parseNot(toks, pos + 1))
    ELSE parsePrimary(toks, pos)

\* one round of the loop of parseAnd, after the right operand r has been parsed
parseAndStep(toks, left, r) ==
    IF ~r.ok THEN r ELSE parseAndLoop(toks, AndExpr(left, r.e), r.pos)

\* a loop that parses the right operand of AND as a whole AND expression
parseAndLoopRight(toks, left, pos) ==
    IF peek(toks, pos) = AndTok
    THEN parseAndStep(toks, left, parseAnd(toks, pos + 1))
    ELSE ParseOk(left, pos)

parseAndLoop(toks, left, pos) ==
    IF peek(toks, pos) = AndTok
    THEN parseAndStep(toks, left, parseNot(toks, pos + 1))
    ELSE ParseOk(left, pos)

parseAndStart(toks, l) == IF ~l.ok THEN l ELSE parseAndLoop(toks, l.e, l.pos)

parseAnd(toks, pos) == parseAndStart(toks, parseNot(toks, pos))

\* one round of the loop of parseOr, after the right operand r has been parsed
parseOrStep(toks, left, r) ==
    IF ~r.ok THEN r ELSE parseOrLoop(toks, OrExpr(left, r.e), r.pos)

parseOrLoop(toks, left, pos) ==
    IF peek(toks, pos) = OrTok
    THEN parseOrStep(toks, left, parseAnd(toks, pos + 1))
    ELSE ParseOk(left, pos)

parseOrStart(toks, l) == IF ~l.ok THEN l ELSE parseOrLoop(toks, l.e, l.pos)

parseOr(toks, pos) == parseOrStart(toks, parseAnd(toks, pos))

\* Parse: [ok, e]; ok = FALSE stands for the returned error
ParseFinish(tokens, result) ==
    IF ~result.ok THEN [ok |-> FALSE, e |-> <<>>]
    ELSE IF ~isEOF(tokens, result.pos) THEN [ok |-> FALSE, e |-> <<>>]
    ELSE [ok |-> TRUE, e |-> result.e]

ParseTokens(tokens) ==
    IF Len(tokens) = 0 THEN [ok |-> FALSE, e |-> <<>>]
    ELSE ParseFinish(tokens, parseOr(tokens, 1))

Parse(expr) == ParseTokens(tokenize(expr))

\* no call of Parse has returned yet
NotParsed == [done |-> FALSE, ok |-> FALSE, e |-> <<>>]

\* what a call of Parse leaves: the error or the expression
Parsed(r) == [done |-> TRUE, ok |-> r.ok, e |-> r.e]

(***************************************************************************)
(* expressions                                                             *)
(***************************************************************************)
\* Expression.Evaluate(keywords): keywords is the set of keys mapped to true
RECURSIVE ExprEvaluate(_, _)
ExprEvaluate(e, keywords) ==
    IF e[1] = "kw" THEN e[2] \in keywords
    ELSE IF e[1] = "not" THEN ~ExprEvaluate(e[2], keywords)
    ELSE IF e[1] = "and" THEN ExprEvaluate(e[2], keywords) /\ ExprEvaluate(e[3], keywords)
    ELSE ExprEvaluate(e[2], keywords) \/ ExprEvaluate(e[3], keywords)

\* Expression.ExtractKeywords: the slice of all leaf keywords, left to right
RECURSIVE ExtractKeywords(_)
ExtractKeywords(e) ==
    IF e[1] = "kw" THEN <<e[2]>>
    ELSE IF e[1] = "not" THEN ExtractKeywords(e[2])
    ELSE ExtractKeywords(e[2]) \o ExtractKeywords(e[3])

\* a variant in which a NotExpr passes on the keywords below it
ExtractKeywordsThroughNot(e) == ExtractKeywords(e)

\* Expression.ExtractPositiveKeywords: a NotExpr contributes nothing
RECURSIVE ExtractPositiveKeywords(_)
ExtractPositiveKeywords(e) ==
    IF e[1] = "kw" THEN <<e[2]>>
    ELSE IF e[1] = "not" THEN <<>>
    ELSE ExtractPositiveKeywords(e[2]) \o ExtractPositiveKeywords(e[3])

(***************************************************************************)
(* rules and engine                                                        *)
(***************************************************************************)
\* priorityOrder: lower = higher priority
priorityOrder(p) ==
    IF p = "critical" THEN 0
    ELSE IF p = "high" THEN 1
    ELSE IF p = "medium" THEN 2
    ELSE IF p = "low" THEN 3
    ELSE 4

ValidatePriority(p) ==
    IF p \in {"critical", "high", "medium", "low"} THEN p ELSE "medium"

\* parseRule(config, index): [ok, rule]; ok = FALSE stands for the returned error
NoRule ==
    [Name |-> "", Expression |-> <<>>, Keywords |-> <<>>, Priority |-> "",
     Enabled |-> FALSE, Order |-> 0]

parseRuleBuild(config, index, p) ==
    IF ~p.ok THEN [ok |-> FALSE, rule |-> NoRule]
    ELSE [ok |-> TRUE,
          rule |-> [Name |-> config.name,
                    Expression |-> p.e,
                    Keywords |-> config.keywords,
                    Priority |-> ValidatePriority(config.priority),
                    Enabled |-> config.enabled,
                    Order |-> index]]

parseRule(config, index) ==
    IF config.name = "" THEN [ok |-> FALSE, rule |-> NoRule]
    ELSE IF config.keywords = <<>> THEN [ok |-> FALSE, rule |-> NoRule]
    ELSE parseRuleBuild(config, index, Parse(config.keywords))

\* the engines: Rules, Keywords (the patterns of the automaton), built (the
\* automaton has been built from Keywords), null (the nil *Engine)
NilEngine == [Rules |-> <<>>, Keywords |-> {}, built |-> FALSE, null |-> TRUE]

NewEmptyEngine == [Rules |-> <<>>, Keywords |-> {}, built |-> FALSE, null |-> FALSE]

\* SortRulesByPriority: sort.Slice is not stable, so every arrangement that is
\* ordered by priorityOrder is a possible result; Order becomes the 0-based index
\* the rules in the order of the file, numbered
KeepFileOrder(rules) == {[i \in 1..Len(rules) |-> [rules[i] EXCEPT !.Order = i - 1]]}

SortRulesByPriority(rules) ==
    LET n == Len(rules)
        perms == {f \in [1..n -> 1..n] :
                     /\ \A i \in 1..n : \E j \in 1..n : f[j] = i
                     /\ \A i, j \in 1..n :
                            i < j => priorityOrder(rules[f[i]].Priority)
                                        <= priorityOrder(rules[f[j]].Priority)}
    IN  {[i \in 1..n |-> [rules[f[i]] EXCEPT !.Order = i - 1]] : f \in perms}

\* a variant that collects the keywords of every leaf, under NOT or not
ExtractAllLeafKeywords(rules) ==
    UNION {{ToLower(kw) : kw \in Range(ExtractKeywords(rules[i].Expression))}
              : i \in 1..Len(rules)}

\* Engine.ExtractAllKeywords: the lower-cased positive keywords of all rules
ExtractAllKeywords(rules) ==
    UNION {{ToLower(kw) : kw \in Range(ExtractPositiveKeywords(rules[i].Expression))}
              : i \in 1..Len(rules)}

\* Engine.BuildAhoCorasick: [ok, engine]; kws is the result of ExtractAllKeywords
BuildWithKeywords(e, kws) ==
    IF kws = {}
    THEN [ok |-> FALSE, engine |-> [e EXCEPT !.Keywords = kws]]
    ELSE [ok |-> TRUE, engine |-> [e EXCEPT !.Keywords = kws, !.built = TRUE]]

BuildAhoCorasick(e) == BuildWithKeywords(e, ExtractAllKeywords(e.Rules))

\* the rule file: exists (os.ReadFile finds it), yamlOk (yaml.Unmarshal
\* accepts it), rules (the RuleConfig entries)
AbsentFile == [exists |-> FALSE, yamlOk |-> TRUE, rules |-> <<>>]

RuleFile(rules) == [exists |-> TRUE, yamlOk |-> TRUE, rules |-> rules]

\* the loop of LoadRules over the entries: acc.rules are the parsed rules,
\* acc.errors counts parseErrors
ParseEntryAdd(acc, r) ==
    IF r.ok THEN [acc EXCEPT !.rules = Append(acc.rules, r.rule)]
    ELSE [acc EXCEPT !.errors = acc.errors + 1]

RECURSIVE ParseEntries(_, _, _)
ParseEntries(configs, i, acc) ==
    IF i > Len(configs) THEN acc
    ELSE ParseEntries(configs, i + 1, ParseEntryAdd(acc, parseRule(configs[i], i - 1)))

LoadRulesParsed(parsed) ==
    IF parsed.errors > 0 THEN [err |-> TRUE, engine |-> NilEngine]
    ELSE [err |-> FALSE,
          engine |-> [Rules |-> parsed.rules, Keywords |-> {},
                      built |-> FALSE, null |-> FALSE]]

\* LoadRules up to the parse of the entries: [err, engine]
LoadRulesParse(file) ==
    IF ~file.exists THEN [err |-> FALSE, engine |-> NewEmptyEngine]
    ELSE IF ~file.yamlOk THEN [err |-> TRUE, engine |-> NilEngine]
    ELSE LoadRulesParsed(ParseEntries(file.rules, 1, [rules |-> <<>>, errors |-> 0]))

LoadRulesBuilt(b) ==
    IF b.ok THEN [err |-> FALSE, engine |-> b.engine]
    ELSE [err |-> TRUE, engine |-> NilEngine]

\* LoadRules from the sort on: the possible results [err, engine] for the
\* engine e under construction
LoadRulesBuild(file, e) ==
    IF ~file.exists THEN {[err |-> FALSE, engine |-> e]}
    ELSE {LoadRulesBuilt(BuildAhoCorasick([e EXCEPT !.Rules = sorted]))
             : sorted \in SortRulesByPriority(e.Rules)}

LoadRulesFrom(file, p) == IF p.err THEN {p} ELSE LoadRulesBuild(file, p.engine)

\* LoadRules(path): the possible results [err, engine]
LoadRules(file) == LoadRulesFrom(file, LoadRulesParse(file))

\* Engine.Find: the set of patterns that occur in a non-empty lower-cased
\* domain (the result slice enumerates this set in map order)
Find(e, domains) ==
    {k \in e.Keywords :
        \E i \in 1..Len(domains) :
            domains[i] # <<>> /\ Contains(ToLower(domains[i]), k)}

\* Machine.MultiPatternSearch on a Machine that was never built dereferences
\* its nil trie as soon as there is a character to search
FindPanics(e, domains) ==
    ~e.built /\ \E i \in 1..Len(domains) : domains[i] # <<>>

NoMatch == [null |-> TRUE, RuleName |-> "", Priority |-> "", Keywords |-> <<>>]

\* the NOT keywords of a rule: all keywords that are not positive keywords
NotKeywords(rule) ==
    LET positiveSet == {ToLower(kw) : kw \in Range(ExtractPositiveKeywords(rule.Expression))}
    IN  {ToLower(kw) : kw \in Range(ExtractKeywords(rule.Expression))} \ positiveSet

\* a variant without the scan of the domains for the NOT keywords
RuleKeywordSetNoScan(rule, keywordSet, domains) == keywordSet

\* the ruleKeywordSet of one iteration of Evaluate
RuleKeywordSet(rule, keywordSet, domains) ==
    keywordSet \cup
    {notKw \in NotKeywords(rule) :
        \E i \in 1..Len(domains) : Contains(ToLower(domains[i]), notKw)}

\* a variant of the loop that keeps going and returns the last rule that matches
RECURSIVE EvaluateFromLast(_, _, _, _)
EvaluateFromLast(e, i, matchedKeywords, domains) ==
    IF i > Len(e.Rules) THEN NoMatch
    ELSE IF ~EvaluateFromLast(e, i + 1, matchedKeywords, domains).null
    THEN EvaluateFromLast(e, i + 1, matchedKeywords, domains)
    ELSE IF e.Rules[i].Enabled /\
            ExprEvaluate(e.Rules[i].Expression,
                         RuleKeywordSet(e.Rules[i], Range(matchedKeywords), domains))
    THEN [null |-> FALSE, RuleName |-> e.Rules[i].Name, Priority |-> e.Rules[i].Priority,
          Keywords |-> matchedKeywords]
    ELSE NoMatch

\* a variant of the loop that does not skip the disabled rules
RECURSIVE EvaluateFromAll(_, _, _, _)
EvaluateFromAll(e, i, matchedKeywords, domains) ==
    IF i > Len(e.Rules) THEN NoMatch
    ELSE IF ExprEvaluate(e.Rules[i].Expression,
                         RuleKeywordSet(e.Rules[i], Range(matchedKeywords), domains))
    THEN [null |-> FALSE, RuleName |-> e.Rules[i].Name, Priority |-> e.Rules[i].Priority,
          Keywords |-> matchedKeywords]
    ELSE EvaluateFromAll(e, i + 1, matchedKeywords, domains)

\* the loop of Evaluate from rule i on
RECURSIVE EvaluateFrom(_, _, _, _)
EvaluateFrom(e, i, matchedKeywords, domains) ==
    IF i > Len(e.Rules) THEN NoMatch
    ELSE LET rule == e.Rules[i] IN
         IF ~rule.Enabled THEN EvaluateFrom(e, i + 1, matchedKeywords, domains)
         ELSE IF ExprEvaluate(rule.Expression,
                              RuleKeywordSet(rule, Range(matchedKeywords), domains))
         THEN [null |-> FALSE, RuleName |-> rule.Name, Priority |-> rule.Priority,
               Keywords |-> matchedKeywords]
         ELSE EvaluateFrom(e, i + 1, matchedKeywords, domains)

\* an Evaluate that runs the rules on an empty keyword list too
EvaluateAnyKeywords(e, matchedKeywords, domains) ==
    IF e.null \/ Len(e.Rules) = 0 THEN NoMatch
    ELSE EvaluateFrom(e, 1, matchedKeywords, domains)

\* Engine.Evaluate(matchedKeywords, domains)
Evaluate(e, matchedKeywords, domains) ==
    IF e.null \/ Len(e.Rules) = 0 \/ Len(matchedKeywords) = 0 THEN NoMatch
    ELSE EvaluateFrom(e, 1, matchedKeywords, domains)


(***************************************************************************)
(* webhook events and matches                                              *)
(***************************************************************************)
\* idna.ToASCII and idna.ToUnicode on the domains of the model: one
\* internationalized name with its ACE form, one label that does not decode
UnicodeDomain == <<"u", "b">>
AceDomain == <<"x", "n", "-", "b">>
BadAceDomain == <<"x", "n", "-">>

ToASCII(d) ==
    IF d = UnicodeDomain THEN [ok |-> TRUE, v |-> AceDomain] ELSE [ok |-> TRUE, v |-> d]

ToUnicode(d) ==
    IF d = AceDomain THEN [ok |-> TRUE, v |-> UnicodeDomain]
    ELSE IF d = BadAceDomain THEN [ok |-> FALSE, v |-> <<>>]
    ELSE [ok |-> TRUE, v |-> d]

\* allDomains of Hook before the expansion: dns_names, then the non-empty
\* dns_name of the endpoints
RequestDomains(ev) ==
    ev.dns_names \o SelectSeq(ev.endpoints, LAMBDA d : d # <<>>)

AddUnseen(expanded, d) == IF d \in Range(expanded) THEN expanded ELSE Append(expanded, d)

AddVariant(expanded, d, conv) ==
    IF conv.ok /\ conv.v # d THEN AddUnseen(expanded, conv.v) ELSE expanded

\* the expansion loop of Hook: each domain, its Punycode form, its Unicode form
RECURSIVE ExpandFrom(_, _, _)
ExpandFrom(domains, i, expanded) ==
    IF i > Len(domains) THEN expanded
    ELSE ExpandFrom(domains, i + 1,
             AddVariant(AddVariant(AddUnseen(expanded, domains[i]),
                                   domains[i], ToASCII(domains[i])),
                        domains[i], ToUnicode(domains[i])))

ExpandDomains(domains) == ExpandFrom(domains, 1, <<>>)

\* strings.Join(elems, ",")
RECURSIVE JoinComma(_)
JoinComma(elems) ==
    IF Len(elems) = 0 THEN <<>>
    ELSE IF Len(elems) = 1 THEN elems[1]
    ELSE elems[1] \o <<",">> \o JoinComma(Tail(elems))

\* the models.Match that Hook builds for a rule match; now is the wall clock
\* read at the start of the request
NewMatch(ev, allDomains, matchedKeywords, ruleMatch, now) ==
    [CertID |-> ev.id,
     Domains |-> allDomains,
     Keyword |-> JoinComma(matchedKeywords),
     MatchedRule |-> ruleMatch.RuleName,
     Priority |-> ruleMatch.Priority,
     Timestamp |-> now,
     TbsSha256 |-> ev.tbs_sha256,
     CertSha256 |-> ev.cert_sha256]

NoEvent ==
    [id |-> "", dns_names |-> <<>>, endpoints |-> <<>>, tbs_sha256 |-> <<>>,
     cert_sha256 |-> <<>>]

NoResponse == [status |-> "", matches |-> 0]

IdleHandler ==
    [pc |-> "idle", now |-> 0, event |-> NoEvent, allDomains |-> <<>>, engine |-> NilEngine,
     evalEngine |-> NilEngine, stale |-> FALSE, matchedKeywords |-> <<>>, ruleMatch |-> NoMatch,
     sent |-> <<>>, dropped |-> 0, resp |-> NoResponse]

Handlers == 1..NumHandlers
Admins == 1..NumAdmins
Workers == 1..NumWorkers

VARIABLES
    rulesFile,      \* the content of config.RulesFile on disk
    RuleEngine,     \* config.RuleEngine: the published engine
    adm,            \* the reload request: pc, file (as read), engine (under construction)
    muts,           \* the admin mutation requests: pc, op, the locals ruleFile and
                    \* engine, and the response
    hs,             \* the webhook handlers: pc and the locals of Hook; history:
                    \* evalEngine, the engine Evaluate ran on, stale, whether
                    \* another engine was published at that moment, sent, dropped
    requests,       \* webhook requests accepted so far
    MatchChan,      \* the matches queued in config.MatchChan
    chanClosed,     \* close(config.MatchChan) has been executed
    TotalCerts,     \* config.TotalCerts
    TotalMatches,   \* config.TotalMatches
    ws,             \* the persistence workers: pc, batch, timer
    RecentMatches,  \* config.RecentMatches
    db,             \* the partition tables: the rows of every table that exists
    dbClosed,       \* db.Close() has been executed
    flushLog,       \* history: the StoreBatch calls, in order
    sendOnClosed,   \* history: a handler executed its send on the closed channel
    srvPc,          \* the shutdown goroutine of main
    mainPc,         \* the main goroutine
    shutdownTimedOut, \* srv.Shutdown returned the error of its context
    clock,          \* time.Now(), in ticks
    env,            \* the environment: PARTITION_RETENTION_DAYS, CLEANUP_INTERVAL_HOURS
    PartitionRetentionDays, \* config.PartitionRetentionDays
    CleanupIntervalHours,   \* config.CleanupIntervalHours
    startPc,        \* main before it serves: "cleanup", "sweeper", "env", "serving"
    sweeper,        \* the cleanup goroutine and its ticker
    CacheMutex,     \* config.CacheMutex: the writer and the readers holding it
    pushers,        \* each worker's position inside AddToRecent
    clients,        \* each request to GetMatches, ClearMatches or Metrics
    pushes,         \* history: the records pushed since the last clear, in order
    parseIn,        \* the expression text handed to Parse
    parseOut,       \* what Parse returned for it
    dbFault,        \* the database refuses transactions (locked, disk full)
    faultAt         \* the statement of a transaction that fails: 0 for Begin, k
                    \* for the k-th Exec, Commit when there are fewer statements

vars ==
    <<rulesFile, RuleEngine, adm, muts, hs, requests, MatchChan, chanClosed, TotalCerts,
      TotalMatches, ws, RecentMatches, db, dbClosed, flushLog, sendOnClosed, srvPc,
      mainPc, shutdownTimedOut, clock, env, PartitionRetentionDays,
      CleanupIntervalHours, startPc, sweeper, CacheMutex, pushers, clients, pushes,
      parseIn, parseOut, dbFault, faultAt>>

ruleVars == <<rulesFile, RuleEngine, adm>>
workerVars == <<ws, RecentMatches, db, flushLog>>
mainVars == <<dbClosed, srvPc, mainPc, shutdownTimedOut>>
envVars == <<env, PartitionRetentionDays, CleanupIntervalHours, startPc, sweeper>>
cacheVars == <<CacheMutex, pushers, clients, pushes>>
parseVars == <<parseIn, parseOut>>
faultVars == <<dbFault, faultAt>>

\* the process has not exited
Running == mainPc # "exited"

\* the handlers whose request is being served
Active(h) == hs[h].pc \in {"loaded", "found", "evaluated"}

(***************************************************************************)
(* Hook                                                                    *)
(***************************************************************************)
\* Hook up to config.RuleEngine.Load(): the request is decoded, the domains
\* are expanded, the engine reference is loaded; without an engine the
\* response is matches 0
HookStart(h, events, maxRequests) ==
    /\ Running
    /\ srvPc = "waiting"
    /\ ~Active(h)
    /\ requests < maxRequests
    /\ requests' = requests + 1
    /\ \E ev \in events :
          hs' = [hs EXCEPT ![h] =
                    IF RuleEngine.null
                    THEN [IdleHandler EXCEPT !.pc = "done", !.now = clock, !.event = ev,
                              !.allDomains = ExpandDomains(RequestDomains(ev)),
                              !.resp = [status |-> "ok", matches |-> 0]]
                    ELSE [IdleHandler EXCEPT !.pc = "loaded", !.now = clock, !.event = ev,
                              !.allDomains = ExpandDomains(RequestDomains(ev)),
                              !.engine = RuleEngine]]
    /\ UNCHANGED <<envVars, faultVars, cacheVars, parseVars, clock, muts, ruleVars, MatchChan, chanClosed, TotalCerts, TotalMatches,
                   workerVars, mainVars, sendOnClosed>>

\* a request that is not a POST or whose body is not JSON is answered with an
\* error status
HookReject(h, maxRequests) ==
    /\ Running
    /\ srvPc = "waiting"
    /\ ~Active(h)
    /\ requests < maxRequests
    /\ requests' = requests + 1
    /\ \E status \in {"method not allowed", "invalid json"} :
          hs' = [hs EXCEPT ![h] =
                    [IdleHandler EXCEPT !.pc = "done",
                                        !.resp = [status |-> status, matches |-> 0]]]
    /\ UNCHANGED <<envVars, faultVars, cacheVars, parseVars, clock, muts, ruleVars, MatchChan, chanClosed, TotalCerts, TotalMatches,
                   workerVars, mainVars, sendOnClosed>>

\* a handler that does not count the certificate in which it found keywords
HookFindUncounted(h) ==
    /\ Running
    /\ hs[h].pc = "loaded"
    /\ IF FindPanics(hs[h].engine, hs[h].allDomains)
       THEN hs' = [hs EXCEPT ![h].pc = "panicked"]
       ELSE \E mk \in Orderings(Find(hs[h].engine, hs[h].allDomains)) :
               IF Len(mk) > 0
               THEN hs' = [hs EXCEPT ![h].pc = "found", ![h].matchedKeywords = mk]
               ELSE hs' = [hs EXCEPT ![h].pc = "done", ![h].matchedKeywords = mk,
                                     ![h].resp = [status |-> "ok", matches |-> 0]]
    /\ UNCHANGED <<envVars, faultVars, cacheVars, parseVars, clock, muts, ruleVars, requests, MatchChan, chanClosed, TotalMatches,
                   TotalCerts, workerVars, mainVars, sendOnClosed>>

\* matchedKeywords := engine.Find(allDomains); config.TotalCerts.Add(1) when
\* a keyword was found, the response otherwise
HookFind(h) ==
    /\ Running
    /\ hs[h].pc = "loaded"
    /\ IF FindPanics(hs[h].engine, hs[h].allDomains)
       THEN /\ hs' = [hs EXCEPT ![h].pc = "panicked"]
            /\ UNCHANGED TotalCerts
       ELSE \E mk \in Orderings(Find(hs[h].engine, hs[h].allDomains)) :
               IF Len(mk) > 0
               THEN /\ hs' = [hs EXCEPT ![h].pc = "found", ![h].matchedKeywords = mk]
                    /\ TotalCerts' = TotalCerts + 1
               ELSE /\ hs' = [hs EXCEPT ![h].pc = "done", ![h].matchedKeywords = mk,
                                        ![h].resp = [status |-> "ok", matches |-> 0]]
                    /\ UNCHANGED TotalCerts
    /\ UNCHANGED <<envVars, faultVars, cacheVars, parseVars, clock, muts, ruleVars, requests, MatchChan, chanClosed, TotalMatches,
                   workerVars, mainVars, sendOnClosed>>

\* a variant that loads config.RuleEngine a second time for Evaluate
EvaluateCurrentEngine(h) == RuleEngine

\* the engine on which Hook calls Evaluate: the reference it loaded
EvaluateEngine(h) == hs[h].engine

\* ruleMatch := engine.Evaluate(matchedKeywords, allDomains);
\* config.TotalMatches.Add(1) when a rule matched, the response otherwise
HookEvaluate(h) ==
    /\ Running
    /\ hs[h].pc = "found"
    /\ \E rm \in {Evaluate(EvaluateEngine(h), hs[h].matchedKeywords, hs[h].allDomains)} :
          IF ~rm.null
          THEN /\ hs' = [hs EXCEPT ![h].pc = "evaluated", ![h].ruleMatch = rm,
                                   ![h].evalEngine = EvaluateEngine(h),
                                   ![h].stale = (RuleEngine # hs[h].engine)]
               /\ TotalMatches' = TotalMatches + 1
          ELSE /\ hs' = [hs EXCEPT ![h].pc = "done", ![h].ruleMatch = rm,
                                   ![h].evalEngine = EvaluateEngine(h),
                                   ![h].stale = (RuleEngine # hs[h].engine),
                                   ![h].resp = [status |-> "ok",
                                                matches |-> Len(hs[h].matchedKeywords)]]
               /\ UNCHANGED TotalMatches
    /\ UNCHANGED <<envVars, faultVars, cacheVars, parseVars, clock, muts, ruleVars, requests, MatchChan, chanClosed, TotalCerts,
                   workerVars, mainVars, sendOnClosed>>

\* a variant that sends one match for every keyword found
MatchesPerKeyword(h) ==
    [i \in 1..Len(hs[h].matchedKeywords) |->
        [NewMatch(hs[h].event, hs[h].allDomains, hs[h].matchedKeywords, hs[h].ruleMatch,
              hs[h].now)
            EXCEPT !.Keyword = hs[h].matchedKeywords[i]]]

\* the matches Hook sends for one rule match
MatchesToSend(h) ==
    <<NewMatch(hs[h].event, hs[h].allDomains, hs[h].matchedKeywords, hs[h].ruleMatch,
              hs[h].now)>>

\* a variant in which a full channel gives up its oldest match for the new one
RECURSIVE SendAllEvict(_, _)
SendAllEvict(chan, ms) ==
    IF ms = <<>> THEN chan
    ELSE SendAllEvict(IF Len(chan) < ChanCap THEN Append(chan, Head(ms))
                      ELSE Append(Tail(chan), Head(ms)), Tail(ms))

\* the channel after the non-blocking sends of ms: a match is appended while
\* there is room and dropped otherwise
RECURSIVE SendAll(_, _)
SendAll(chan, ms) ==
    IF ms = <<>> THEN chan
    ELSE SendAll(IF Len(chan) < ChanCap THEN Append(chan, Head(ms)) ELSE chan, Tail(ms))

\* select { case config.MatchChan <- m: default: } and the response; a send on
\* a closed channel panics
HookSend(h) ==
    /\ Running
    /\ hs[h].pc = "evaluated"
    /\ IF chanClosed
       THEN /\ hs' = [hs EXCEPT ![h].pc = "panicked"]
            /\ sendOnClosed' = TRUE
            /\ UNCHANGED MatchChan
       ELSE /\ MatchChan' = SendAll(MatchChan, MatchesToSend(h))
            /\ hs' = [hs EXCEPT
                        ![h].pc = "done",
                        ![h].sent = SubSeq(MatchChan', Len(MatchChan) + 1, Len(MatchChan')),
                        ![h].dropped = Len(MatchesToSend(h)) - (Len(MatchChan') - Len(MatchChan)),
                        ![h].resp = [status |-> "ok",
                                     matches |-> Len(hs[h].matchedKeywords)]]
            /\ UNCHANGED sendOnClosed
    /\ UNCHANGED <<envVars, faultVars, cacheVars, parseVars, clock, muts, ruleVars, requests, chanClosed, TotalCerts, TotalMatches,
                   workerVars, mainVars>>

(***************************************************************************)
(* ReloadRules                                                             *)
(***************************************************************************)
\* no reload request is being served; status is the answer to the last one
IdleAdmin == [pc |-> "idle", file |-> AbsentFile, engine |-> NilEngine, status |-> ""]

\* the rule file is edited on disk (the reason reload exists)
EditRulesFile(files) ==
    /\ Running
    /\ \E f \in files : f # rulesFile /\ rulesFile' = f
    /\ UNCHANGED <<envVars, faultVars, cacheVars, parseVars, clock, muts, RuleEngine, adm, hs, requests, MatchChan, chanClosed, TotalCerts,
                   TotalMatches, workerVars, mainVars, sendOnClosed>>

\* LoadRules: os.ReadFile, yaml.Unmarshal and parseRule of every entry; the
\* engine under construction is local to the request
ReloadRead ==
    /\ Running
    /\ adm.pc = "idle"
    /\ adm' = IF LoadRulesParse(rulesFile).err
              THEN [pc |-> "failed", file |-> rulesFile, engine |-> NilEngine, status |-> ""]
              ELSE [pc |-> "parsed", file |-> rulesFile,
                    engine |-> LoadRulesParse(rulesFile).engine, status |-> ""]
    /\ UNCHANGED <<envVars, faultVars, cacheVars, parseVars, clock, muts, rulesFile, RuleEngine, hs, requests, MatchChan, chanClosed,
                   TotalCerts, TotalMatches, workerVars, mainVars, sendOnClosed>>

\* LoadRules: SortRulesByPriority and BuildAhoCorasick
ReloadBuild ==
    /\ Running
    /\ adm.pc = "parsed"
    /\ \E r \in LoadRulesBuild(adm.file, adm.engine) :
          adm' = IF r.err THEN [adm EXCEPT !.pc = "failed", !.engine = NilEngine]
                 ELSE [adm EXCEPT !.pc = "built", !.engine = r.engine]
    /\ UNCHANGED <<envVars, faultVars, cacheVars, parseVars, clock, muts, rulesFile, RuleEngine, hs, requests, MatchChan, chanClosed,
                   TotalCerts, TotalMatches, workerVars, mainVars, sendOnClosed>>

\* a variant that stores whatever LoadRules returned, its error ignored
ReloadMayStoreAnyway == adm.pc \in {"built", "failed"}

\* ReloadRules stores the engine once LoadRules has returned it without error
ReloadMayStore == adm.pc = "built"

\* config.RuleEngine.Store(engine) and the response
ReloadStore ==
    /\ Running
    /\ ReloadMayStore
    /\ RuleEngine' = adm.engine
    /\ adm' = [IdleAdmin EXCEPT !.status = "rules reloaded"]
    /\ UNCHANGED <<envVars, faultVars, cacheVars, parseVars, clock, muts, rulesFile, hs, requests, MatchChan, chanClosed, TotalCerts,
                   TotalMatches, workerVars, mainVars, sendOnClosed>>

\* LoadRules returned an error: status failed, nothing is stored
ReloadFail ==
    /\ Running
    /\ adm.pc = "failed"
    /\ adm' = [IdleAdmin EXCEPT !.status = "failed"]
    /\ UNCHANGED <<envVars, faultVars, cacheVars, parseVars, clock, muts, rulesFile, RuleEngine, hs, requests, MatchChan, chanClosed,
                   TotalCerts, TotalMatches, workerVars, mainVars, sendOnClosed>>

(***************************************************************************)
(* persistence workers                                                     *)
(***************************************************************************)
\* tableForDate: the name of the partition table of the day of time t
tableForDate(t) == <<"matches", t \div TicksPerDay>>

\* a time.Time as the text that is bound to a statement and stored: the date,
\* then the time of day
FormatTime(t) == <<t \div TicksPerDay, t % TicksPerDay>>

\* the time.Time that is parsed from the text of a timestamp column
ParseTime(ts) == ts[1] * TicksPerDay + ts[2]

\* timestamp >= ? in a WHERE clause: the comparison of the two texts
TextAtLeast(ts, since) == ts[1] > since[1] \/ (ts[1] = since[1] /\ ts[2] >= since[2])

\* json.Marshal of a string: quoted, with quote and backslash escaped
RECURSIVE MarshalString(_, _)
MarshalString(str, i) ==
    IF i > Len(str) THEN <<"\"">>
    ELSE IF str[i] \in {"\"", "\\"} THEN <<"\\", str[i]>> \o MarshalString(str, i + 1)
    ELSE <<str[i]>> \o MarshalString(str, i + 1)

RECURSIVE MarshalElems(_, _)
MarshalElems(domains, i) ==
    IF i > Len(domains) THEN <<"]">>
    ELSE (IF i > 1 THEN <<",">> ELSE <<>>)
            \o <<"\"">> \o MarshalString(domains[i], 1) \o MarshalElems(domains, i + 1)

\* json.Marshal(m.Domains)
MarshalDomains(domains) == <<"[">> \o MarshalElems(domains, 1)

\* json.Unmarshal into m.Domains: text from position i on, cur the string
\* that is being read (inString), acc the strings read
RECURSIVE UnmarshalFrom(_, _, _, _, _)
UnmarshalFrom(text, i, inString, cur, acc) ==
    IF i > Len(text) THEN acc
    ELSE IF ~inString
         THEN UnmarshalFrom(text, i + 1, text[i] = "\"", <<>>, acc)
    ELSE IF text[i] = "\\" /\ i < Len(text)
         THEN UnmarshalFrom(text, i + 2, TRUE, Append(cur, text[i + 1]), acc)
    ELSE IF text[i] = "\""
         THEN UnmarshalFrom(text, i + 1, FALSE, <<>>, Append(acc, cur))
    ELSE UnmarshalFrom(text, i + 1, TRUE, Append(cur, text[i]), acc)

UnmarshalDomains(text) == UnmarshalFrom(text, 1, FALSE, <<>>, <<>>)

\* the column values that storeSingleTable binds for a match
MatchRow(m) ==
    [cert_id |-> m.CertID,
     keyword |-> m.Keyword,
     matched_rule |-> m.MatchedRule,
     priority |-> m.Priority,
     domains |-> MarshalDomains(m.Domains),
     tbs_sha256 |-> m.TbsSha256,
     cert_sha256 |-> m.CertSha256,
     timestamp |-> FormatTime(m.Timestamp)]

\* rows.Scan, json.Unmarshal and time.Parse: the models.Match of a row
ScanMatch(row) ==
    [CertID |-> row.cert_id,
     Domains |-> UnmarshalDomains(row.domains),
     Keyword |-> row.keyword,
     MatchedRule |-> row.matched_rule,
     Priority |-> row.priority,
     Timestamp |-> ParseTime(row.timestamp),
     TbsSha256 |-> row.tbs_sha256,
     CertSha256 |-> row.cert_sha256]

\* UNIQUE(cert_id, keyword): the key of the unique index of a partition table
StoreKey(row) == <<row.cert_id, row.keyword>>

\* a variant with a plain INSERT: a row whose key is in the table is a
\* constraint error
InsertFailOnConflict(acc, row) ==
    IF \E r \in acc.rows : StoreKey(r) = StoreKey(row)
    THEN [acc EXCEPT !.err = TRUE]
    ELSE [acc EXCEPT !.rows = acc.rows \cup {row}]

\* INSERT OR IGNORE of one row into the rows of the transaction
InsertOrIgnore(acc, row) ==
    IF \E r \in acc.rows : StoreKey(r) = StoreKey(row)
    THEN acc
    ELSE [acc EXCEPT !.rows = acc.rows \cup {row}]

\* the loop of storeSingleTable: every match in order, until a statement fails
RECURSIVE InsertAll(_, _)
InsertAll(acc, matches) ==
    IF matches = <<>> \/ acc.err THEN acc
    ELSE IF dbFault /\ acc.n = faultAt THEN [acc EXCEPT !.err = TRUE]
    ELSE InsertAll([InsertOrIgnore(acc, MatchRow(Head(matches))) EXCEPT !.n = @ + 1],
                   Tail(matches))

\* a transaction whose statements stay applied when one of them has failed
CommitPartial(rows, acc) ==
    [rows |-> acc.rows, err |-> acc.err \/ dbFault]

\* tx.Commit(), or tx.Rollback() after a failed statement: the rows of the
\* table before, when a statement or the commit has failed
CommitOrRollback(rows, acc) ==
    IF acc.err \/ dbFault THEN [rows |-> rows, err |-> TRUE]
    ELSE [rows |-> acc.rows, err |-> FALSE]

\* storeSingleTable: [rows, err] for the rows of the table before
storeSingleTable(rows, matches) ==
    IF dbFault /\ faultAt = 0 THEN [rows |-> rows, err |-> TRUE]
    ELSE CommitOrRollback(rows, InsertAll([rows |-> rows, err |-> FALSE, n |-> 1], matches))

\* CreatePartitionTable: CREATE TABLE IF NOT EXISTS
CreatePartitionTable(tables, tbl) ==
    IF tbl \in DOMAIN tables THEN tables ELSE tables @@ (tbl :> {})

\* the matches of a batch whose day is that of table tbl
Bucket(matches, tbl) == SelectSeq(matches, LAMBDA m : tableForDate(m.Timestamp) = tbl)

\* the loop of StoreBatch over the buckets in the order of the map iteration:
\* [tables, err]; an error of storeSingleTable ends the loop
RECURSIVE StoreBuckets(_, _, _, _)
RECURSIVE StoreBucket(_, _, _, _, _)
StoreBucket(tables, order, i, matches, r) ==
    IF r.err THEN [tables |-> [tables EXCEPT ![order[i]] = r.rows], err |-> TRUE]
    ELSE StoreBuckets([tables EXCEPT ![order[i]] = r.rows], order, i + 1, matches)

StoreBuckets(tables, order, i, matches) ==
    IF i > Len(order) THEN [tables |-> tables, err |-> FALSE]
    ELSE StoreBucket(CreatePartitionTable(tables, order[i]), order, i, matches,
                     storeSingleTable(CreatePartitionTable(tables, order[i])[order[i]],
                                      Bucket(matches, order[i])))

\* StoreBatch: the possible results [tables, err]; on a closed database
\* CreatePartitionTable fails for every bucket, which is logged and skipped
StoreBatch(tables, closed, matches) ==
    IF closed \/ matches = <<>> THEN {[tables |-> tables, err |-> FALSE]}
    ELSE {StoreBuckets(tables, order, 1, matches) :
             order \in Orderings({tableForDate(matches[i].Timestamp) : i \in 1..Len(matches)})}

\* a ring that keeps its oldest records
TrimRecentKeepOldest(recent) ==
    IF Len(recent) > MaxRecentMatches
    THEN SubSeq(recent, 1, MaxRecentMatches)
    ELSE recent

\* AddToRecent: config.RecentMatches[len(config.RecentMatches)-config.MaxRecentMatches:]
\* when the slice is longer than config.MaxRecentMatches
TrimRecent(recent) ==
    IF Len(recent) > MaxRecentMatches
    THEN SubSeq(recent, Len(recent) - MaxRecentMatches + 1, Len(recent))
    ELSE recent

\* a worker that stores without pushing to the ring
SkipRecent(recent, m) == recent

\* AddToRecent, under config.CacheMutex.Lock()
AddToRecent(recent, m) == TrimRecent(Append(recent, m))

\* err: the error of the last StoreBatch of the worker
NewWorker == [pc |-> "run", batch |-> <<>>, timer |-> "armed", err |-> FALSE]

\* a worker that keeps the batch of a failed flush for the next attempt
RetryAfterError(worker, err) ==
    IF err THEN [worker EXCEPT !.timer = "armed", !.err = TRUE]
    ELSE [worker EXCEPT !.batch = <<>>, !.timer = "armed", !.err = FALSE]

\* a Stop that reports false for a fired timer and leaves no value behind
TimerStopLosesValue(timer) ==
    IF timer = "armed" THEN {[stopped |-> TRUE, value |-> FALSE]}
    ELSE {[stopped |-> FALSE, value |-> FALSE]}

\* timer.Stop(): what it reports and whether timer.C holds a value after it.
\* A running timer is stopped. For a timer that has fired and whose value
\* was not received, Stop discards the value and reports true (timer
\* channels since Go 1.23) or reports false with the value left in the
\* channel (asynctimerchan=1); a timer whose value was received reports
\* false and its channel is empty.
TimerStop(timer) ==
    IF timer = "armed" THEN {[stopped |-> TRUE, value |-> FALSE]}
    ELSE IF timer = "fired"
    THEN {[stopped |-> TRUE, value |-> FALSE], [stopped |-> FALSE, value |-> TRUE]}
    ELSE {[stopped |-> FALSE, value |-> FALSE]}

\* if !timer.Stop() { <-timer.C }: the receive returns when the channel
\* holds a value, and blocks for ever on a timer that is not running
Drain(worker, s) ==
    IF s.stopped \/ s.value THEN worker ELSE [worker EXCEPT !.pc = "blocked"]

\* the worker after StoreBatch has returned err: the error is logged,
\* batch = batch[:0] and the timer is reset
AfterFlush(worker, err) == [worker EXCEPT !.batch = <<>>, !.timer = "armed", !.err = err]

\* the batch timer of worker w expires: its channel holds a value
TimerFire(w) ==
    /\ Running
    /\ ws[w].pc = "run"
    /\ ws[w].timer = "armed"
    /\ ws' = [ws EXCEPT ![w].timer = "fired"]
    /\ UNCHANGED <<envVars, faultVars, cacheVars, parseVars, clock, muts, ruleVars, hs, requests, MatchChan, chanClosed, TotalCerts,
                   TotalMatches, RecentMatches, db, flushLog, mainVars, sendOnClosed>>

\* case m, ok := <-config.MatchChan with ok: append, AddToRecent, and the
\* flush of a full batch with the timer stopped, drained and reset
WorkerReceive(w) ==
    /\ Running
    /\ ws[w].pc = "run"
    /\ MatchChan # <<>>
    /\ MatchChan' = Tail(MatchChan)
    /\ RecentMatches' = AddToRecent(RecentMatches, Head(MatchChan))
    /\ IF Len(ws[w].batch) + 1 >= BatchSize
       THEN /\ \E r \in StoreBatch(db, dbClosed, Append(ws[w].batch, Head(MatchChan))),
                  s \in TimerStop(ws[w].timer) :
                  /\ db' = r.tables
                  /\ ws' = [ws EXCEPT ![w] = AfterFlush(Drain(ws[w], s), r.err)]
            /\ flushLog' = Append(flushLog,
                   [w |-> w, kind |-> "size", batch |-> Append(ws[w].batch, Head(MatchChan))])
       ELSE /\ ws' = [ws EXCEPT ![w].batch = Append(ws[w].batch, Head(MatchChan))]
            /\ UNCHANGED <<db, flushLog>>
    /\ UNCHANGED <<envVars, faultVars, cacheVars, parseVars, clock, muts, ruleVars, hs, requests, chanClosed, TotalCerts, TotalMatches,
                   mainVars, sendOnClosed>>

\* case <-timer.C: the flush of a non-empty batch, and the reset of the timer
WorkerTimeout(w) ==
    /\ Running
    /\ ws[w].pc = "run"
    /\ ws[w].timer = "fired"
    /\ IF Len(ws[w].batch) > 0
       THEN /\ \E r \in StoreBatch(db, dbClosed, ws[w].batch) :
                  /\ db' = r.tables
                  /\ ws' = [ws EXCEPT ![w] = AfterFlush(ws[w], r.err)]
            /\ flushLog' = Append(flushLog,
                   [w |-> w, kind |-> "timeout", batch |-> ws[w].batch])
       ELSE /\ ws' = [ws EXCEPT ![w].batch = <<>>, ![w].timer = "armed"]
            /\ UNCHANGED <<db, flushLog>>
    /\ UNCHANGED <<envVars, faultVars, cacheVars, parseVars, clock, muts, ruleVars, hs, requests, MatchChan, chanClosed, TotalCerts,
                   TotalMatches, RecentMatches, mainVars, sendOnClosed>>

\* a variant that flushes on closure whatever the batch holds
FlushOnCloseAlways(w) == TRUE

\* the worker flushes on closure when its batch is not empty
FlushOnClose(w) == Len(ws[w].batch) > 0

\* case m, ok := <-config.MatchChan with !ok (the channel is closed and
\* drained): the flush of a non-empty batch, and the return
WorkerClosed(w) ==
    /\ Running
    /\ ws[w].pc = "run"
    /\ chanClosed
    /\ MatchChan = <<>>
    /\ IF FlushOnClose(w)
       THEN /\ \E r \in StoreBatch(db, dbClosed, ws[w].batch) :
                  /\ db' = r.tables
                  /\ ws' = [ws EXCEPT ![w].pc = "exited", ![w].err = r.err]
            /\ flushLog' = Append(flushLog,
                   [w |-> w, kind |-> "close", batch |-> ws[w].batch])
       ELSE /\ ws' = [ws EXCEPT ![w].pc = "exited"]
            /\ UNCHANGED <<db, flushLog>>
    /\ UNCHANGED <<envVars, faultVars, cacheVars, parseVars, clock, muts, ruleVars, hs, requests, MatchChan, chanClosed, TotalCerts,
                   TotalMatches, RecentMatches, mainVars, sendOnClosed>>

(***************************************************************************)
(* the clock and the queries of the store                                  *)
(***************************************************************************)
\* the database starts or stops refusing transactions
DbFault ==
    /\ Running
    /\ dbFault' = ~dbFault
    /\ faultAt' \in IF dbFault THEN {0} ELSE 0..BatchSize
    /\ UNCHANGED <<envVars, cacheVars, parseVars, clock, muts, ruleVars, hs, requests,
                   MatchChan, chanClosed, TotalCerts, TotalMatches, workerVars, mainVars,
                   sendOnClosed>>

\* time passes, up to the tick last
TickUntil(last) ==
    /\ Running
    /\ clock < last
    /\ clock' = clock + 1
    /\ UNCHANGED <<envVars, faultVars, cacheVars, parseVars, muts, ruleVars, hs, requests, MatchChan, chanClosed, TotalCerts,
                   TotalMatches, workerVars, mainVars, sendOnClosed>>

Tick == TickUntil(MaxClock)

\* the loop of getTablesForDateRange: one table name for d, d plus a day, ...
\* as long as d is not after now
RECURSIVE DaysFrom(_, _)
DaysFrom(d, now) ==
    IF d > now THEN <<>> ELSE <<tableForDate(d)>> \o DaysFrom(d + TicksPerDay, now)

\* "always include today's table"
WithToday(tables, todayTable) ==
    IF Len(tables) = 0 \/ tables[Len(tables)] # todayTable
    THEN Append(tables, todayTable)
    ELSE tables

\* a variant that names the table of today only
OnlyTodayTable(since, now) == <<tableForDate(now)>>

getTablesForDateRange(since, now) == WithToday(DaysFrom(since, now), tableForDate(now))

\* SELECT ... FROM tbl WHERE timestamp >= ?
RowsSince(tables, tbl, since) ==
    {row \in tables[tbl] : TextAtLeast(row.timestamp, FormatTime(since))}

\* the tables of the date range that exist (the query of a missing table is
\* an error, and the table is skipped)
ExistingTables(tables, since, now) ==
    SelectSeq(getTablesForDateRange(since, now), LAMBDA tbl : tbl \in DOMAIN tables)

\* GetRecent: the matches returned (their order is that of the tables and of
\* the rows in each table)
GetRecent(tables, since, now) ==
    UNION {{ScanMatch(row) : row \in RowsSince(tables, tbl, since)}
              : tbl \in Range(ExistingTables(tables, since, now))}

\* the order of the cert ids as texts
CertRank(id) == IF id = "c1" THEN 1 ELSE IF id = "c2" THEN 2 ELSE IF id = "c3" THEN 3 ELSE 0

\* ORDER BY timestamp DESC, cert_id ASC: row a may come before row b
MayPrecede(a, b) ==
    \/ a.timestamp # b.timestamp /\ TextAtLeast(a.timestamp, b.timestamp)
    \/ a.timestamp = b.timestamp /\ CertRank(a.cert_id) <= CertRank(b.cert_id)

\* the results of the ordered UNION ALL over the rows: rows that agree on
\* timestamp and cert_id come in any order
OrderedRows(rows) ==
    {o \in Orderings(rows) : \A i, j \in 1..Len(o) : i < j => MayPrecede(o[i], o[j])}

\* LIMIT ? OFFSET ?
LimitOffset(o, limit, offset) ==
    IF offset >= Len(o) THEN <<>>
    ELSE SubSeq(o, offset + 1, IF offset + limit > Len(o) THEN Len(o) ELSE offset + limit)

\* the sum of SELECT COUNT(DISTINCT cert_id) FROM tbl WHERE timestamp >= ?
\* over the existing tables, from table i on
RECURSIVE TotalCount(_, _, _, _)
TotalCount(tables, existing, since, i) ==
    IF i > Len(existing) THEN 0
    ELSE Cardinality({row.cert_id : row \in RowsSince(tables, existing[i], since)})
            + TotalCount(tables, existing, since, i + 1)

\* the rows of the UNION ALL of the grouped SELECTs: a group is one row, as
\* (cert_id, keyword) is unique in a table
UnionAll(tables, existing, since) ==
    UNION {RowsSince(tables, tbl, since) : tbl \in Range(existing)}

\* GetRecentPaginated: the possible results [all, total]
GetRecentPaginated(tables, since, now, limit, offset) ==
    IF Len(ExistingTables(tables, since, now)) = 0 THEN {[all |-> <<>>, total |-> 0]}
    ELSE {[all |-> [i \in 1..Len(LimitOffset(o, limit, offset)) |->
                       ScanMatch(LimitOffset(o, limit, offset)[i])],
           total |-> TotalCount(tables, ExistingTables(tables, since, now), since, 1)]
             : o \in OrderedRows(UnionAll(tables, ExistingTables(tables, since, now), since))}

\* GetExistingPartitionTables: the tables whose name is LIKE 'matches_%'
GetExistingPartitionTables(tables) == {tbl \in DOMAIN tables : tbl[1] = "matches"}

\* GetMatchesByCertIDs: the matches of the cert ids in all partition tables
GetMatchesByCertIDs(tables, certIDs) ==
    UNION {{ScanMatch(row) : row \in {x \in tables[tbl] : x.cert_id \in certIDs}}
              : tbl \in GetExistingPartitionTables(tables)}

\* the cert ids of a page
PageCertIDs(page) == {page.all[i].CertID : i \in 1..Len(page.all)}

\* the response of GetRecentFromDB for a page: one entry for every cert id
\* of the page with the keywords of all its matches, total, has_more
PageResponse(tables, page, offset) ==
    [matches |-> {[cert_id |-> id,
                   matched_domains |->
                       {m.Keyword : m \in GetMatchesByCertIDs(tables, {id})}]
                     : id \in PageCertIDs(page)},
     count |-> Cardinality(PageCertIDs(page)),
     total |-> page.total,
     has_more |-> offset + Cardinality(PageCertIDs(page)) < page.total]

\* GetRecentFromDB with limit and offset: the possible responses
GetRecentFromDB(tables, since, now, limit, offset) ==
    {PageResponse(tables, page, offset)
        : page \in GetRecentPaginated(tables, since, now, limit, offset)}

(***************************************************************************)
(* partition retention                                                     *)
(***************************************************************************)

\* config.PartitionRetentionDays and config.CleanupIntervalHours as declared
DefaultRetentionDays == 30
DefaultCleanupIntervalHours == 24

\* an environment where neither variable is set: Getenv gives ""
NoEnv == [PARTITION_RETENTION_DAYS |-> <<>>, CLEANUP_INTERVAL_HOURS |-> <<>>]

Digits == <<"0", "1", "2", "3", "4", "5", "6", "7", "8", "9">>

DigitValue(c) == (CHOOSE i \in 1..10 : Digits[i] = c) - 1

RECURSIVE DecimalValue(_)
DecimalValue(s) ==
    IF s = <<>> THEN 0
    ELSE 10 * DecimalValue(SubSeq(s, 1, Len(s) - 1)) + DigitValue(s[Len(s)])

\* time.ParseDuration(s + "h") for s without sign, fraction or unit: the
\* number of hours; any other character makes the unit unknown, an error
ParseDurationHours(s) ==
    IF s # <<>> /\ \A i \in 1..Len(s) : \E d \in 1..10 : Digits[d] = s[i]
    THEN [err |-> FALSE, hours |-> DecimalValue(s)]
    ELSE [err |-> TRUE, hours |-> 0]

\* main: config.PartitionRetentionDays after PARTITION_RETENTION_DAYS = s
RetentionFromEnv(s, old) ==
    IF s # <<>> /\ ~ParseDurationHours(s).err
    THEN ParseDurationHours(s).hours \div 24 ELSE old

\* main: config.CleanupIntervalHours after CLEANUP_INTERVAL_HOURS = s
IntervalFromEnv(s, old) ==
    IF s # <<>> /\ ~ParseDurationHours(s).err
    THEN ParseDurationHours(s).hours ELSE old

\* time.NewTicker(hours * time.Hour) created at the tick now
NewTicker(now, hours) ==
    [pc |-> "ticking", period |-> (hours * TicksPerDay) \div 24,
     next |-> now + (hours * TicksPerDay) \div 24]

NoTicker == [pc |-> "idle", period |-> 0, next |-> 0]

\* time.Parse("2006_01_02", ...) of the name after "matches_" succeeds
HasDate(tbl) == Len(tbl) = 2

\* tableDate.Before(cutoffDate): the midnight of the table's day against
\* time.Now().AddDate(0, 0, -retention)
BeforeCutoff(tbl, now, retention) ==
    tbl[2] * TicksPerDay < now - retention * TicksPerDay

OldPartitions(tables, now, retention) ==
    {tbl \in GetExistingPartitionTables(tables) :
        HasDate(tbl) /\ BeforeCutoff(tbl, now, retention)}

\* CleanupOldPartitions: DROP TABLE of every partition before the cutoff
CleanupOldPartitions(tables, now, retention) ==
    [tbl \in DOMAIN tables \ OldPartitions(tables, now, retention) |-> tables[tbl]]

\* main: the cleanup at startup
StartupCleanup ==
    /\ startPc = "cleanup"
    /\ db' = CleanupOldPartitions(db, clock, PartitionRetentionDays)
    /\ startPc' = "sweeper"
    /\ UNCHANGED <<cacheVars, parseVars, faultVars, clock, muts, ruleVars, hs, requests, MatchChan, chanClosed, TotalCerts,
                   TotalMatches, ws, RecentMatches, flushLog, mainVars, sendOnClosed,
                   env, PartitionRetentionDays, CleanupIntervalHours, sweeper>>

\* main: go func() { ... } of the periodic cleanup
StartSweeper ==
    /\ startPc = "sweeper"
    /\ startPc' = "env"
    /\ sweeper' = [sweeper EXCEPT !.pc = "new"]
    /\ UNCHANGED <<cacheVars, parseVars, faultVars, clock, muts, ruleVars, hs, requests, MatchChan, chanClosed, TotalCerts,
                   TotalMatches, workerVars, mainVars, sendOnClosed,
                   env, PartitionRetentionDays, CleanupIntervalHours>>

\* the cleanup goroutine: ticker := time.NewTicker(...)
SweeperNewTicker ==
    /\ sweeper.pc = "new"
    /\ sweeper' = NewTicker(clock, CleanupIntervalHours)
    /\ UNCHANGED <<cacheVars, parseVars, faultVars, clock, muts, ruleVars, hs, requests, MatchChan, chanClosed, TotalCerts,
                   TotalMatches, workerVars, mainVars, sendOnClosed,
                   env, PartitionRetentionDays, CleanupIntervalHours, startPc>>

\* main: the retention and the interval are read from the environment
ConfigureFromEnv ==
    /\ startPc = "env"
    /\ PartitionRetentionDays' =
           RetentionFromEnv(env.PARTITION_RETENTION_DAYS, PartitionRetentionDays)
    /\ CleanupIntervalHours' =
           IntervalFromEnv(env.CLEANUP_INTERVAL_HOURS, CleanupIntervalHours)
    /\ startPc' = "serving"
    /\ UNCHANGED <<cacheVars, parseVars, faultVars, clock, muts, ruleVars, hs, requests, MatchChan, chanClosed, TotalCerts,
                   TotalMatches, workerVars, mainVars, sendOnClosed, env, sweeper>>

\* the cleanup goroutine: for range ticker.C { CleanupOldPartitions() }
Sweep ==
    /\ sweeper.pc = "ticking"
    /\ clock >= sweeper.next
    /\ db' = CleanupOldPartitions(db, clock, PartitionRetentionDays)
    /\ sweeper' = [sweeper EXCEPT !.next = sweeper.next + sweeper.period]
    /\ UNCHANGED <<cacheVars, parseVars, faultVars, clock, muts, ruleVars, hs, requests, MatchChan, chanClosed, TotalCerts,
                   TotalMatches, ws, RecentMatches, flushLog, mainVars, sendOnClosed,
                   env, PartitionRetentionDays, CleanupIntervalHours, startPc>>

(***************************************************************************)
(* the recent cache: config.RecentMatches under config.CacheMutex          *)
(***************************************************************************)

Clients == 1..NumClients

NoHolder == <<>>

\* sync.RWMutex: one writer or any number of readers
FreeMutex == [writer |-> NoHolder, readers |-> {}]

IdlePusher == [pc |-> "idle", m |-> <<>>]

IdleClient == [op |-> "", pc |-> "idle", seen |-> <<>>, len |-> 0]

CacheInit ==
    /\ CacheMutex = FreeMutex
    /\ pushers = [w \in Workers |-> IdlePusher]
    /\ clients = [c \in Clients |-> IdleClient]
    /\ pushes = <<>>

\* Lock() returns when no writer and no reader holds the mutex
CanLock == CacheMutex.writer = NoHolder /\ CacheMutex.readers = {}

\* RLock() returns when no writer holds the mutex
CanRLock == CacheMutex.writer = NoHolder

\* AddToRecent(m) of worker w: config.CacheMutex.Lock()
AddToRecentLock(w, m) ==
    /\ pushers[w].pc = "idle"
    /\ Len(pushes) < MaxPushes
    /\ CanLock
    /\ CacheMutex' = [CacheMutex EXCEPT !.writer = <<"worker", w>>]
    /\ pushers' = [pushers EXCEPT ![w] = [pc |-> "append", m |-> m]]
    /\ UNCHANGED <<envVars, faultVars, parseVars, clock, muts, ruleVars, hs, requests, MatchChan, chanClosed,
                   TotalCerts, TotalMatches, workerVars, mainVars, sendOnClosed,
                   clients, pushes>>

\* config.RecentMatches = append(config.RecentMatches, m)
AddToRecentAppend(w) ==
    /\ pushers[w].pc = "append"
    /\ RecentMatches' = Append(RecentMatches, pushers[w].m)
    /\ pushes' = Append(pushes, pushers[w].m)
    /\ pushers' = [pushers EXCEPT ![w].pc = "trim"]
    /\ UNCHANGED <<envVars, faultVars, parseVars, clock, muts, ruleVars, hs, requests, MatchChan, chanClosed,
                   TotalCerts, TotalMatches, ws, db, flushLog, mainVars, sendOnClosed,
                   CacheMutex, clients>>

\* if len(config.RecentMatches) > config.MaxRecentMatches { ... }
AddToRecentTrim(w) ==
    /\ pushers[w].pc = "trim"
    /\ RecentMatches' = TrimRecent(RecentMatches)
    /\ pushers' = [pushers EXCEPT ![w].pc = "unlock"]
    /\ UNCHANGED <<envVars, faultVars, parseVars, clock, muts, ruleVars, hs, requests, MatchChan, chanClosed,
                   TotalCerts, TotalMatches, ws, db, flushLog, mainVars, sendOnClosed,
                   CacheMutex, clients, pushes>>

\* defer config.CacheMutex.Unlock()
AddToRecentUnlock(w) ==
    /\ pushers[w].pc = "unlock"
    /\ CacheMutex' = [CacheMutex EXCEPT !.writer = NoHolder]
    /\ pushers' = [pushers EXCEPT ![w] = IdlePusher]
    /\ UNCHANGED <<envVars, faultVars, parseVars, clock, muts, ruleVars, hs, requests, MatchChan, chanClosed,
                   TotalCerts, TotalMatches, workerVars, mainVars, sendOnClosed,
                   clients, pushes>>

\* GetMatches: config.CacheMutex.RLock()
GetMatchesRLock(c) ==
    /\ clients[c].pc = "idle"
    /\ CanRLock
    /\ CacheMutex' = [CacheMutex EXCEPT !.readers = @ \cup {<<"client", c>>}]
    /\ clients' = [clients EXCEPT ![c] = [IdleClient EXCEPT !.op = "GetMatches", !.pc = "read"]]
    /\ UNCHANGED <<envVars, faultVars, parseVars, clock, muts, ruleVars, hs, requests, MatchChan, chanClosed,
                   TotalCerts, TotalMatches, workerVars, mainVars, sendOnClosed,
                   pushers, pushes>>

\* GetMatches: for _, match := range config.RecentMatches
GetMatchesRead(c) ==
    /\ clients[c].pc = "read"
    /\ clients' = [clients EXCEPT ![c].seen = RecentMatches,
                                  ![c].len = Len(RecentMatches), ![c].pc = "runlock"]
    /\ UNCHANGED <<envVars, faultVars, parseVars, clock, muts, ruleVars, hs, requests, MatchChan, chanClosed,
                   TotalCerts, TotalMatches, workerVars, mainVars, sendOnClosed,
                   CacheMutex, pushers, pushes>>

\* GetMatches: defer config.CacheMutex.RUnlock()
GetMatchesRUnlock(c) ==
    /\ clients[c].pc = "runlock"
    /\ CacheMutex' = [CacheMutex EXCEPT !.readers = @ \ {<<"client", c>>}]
    /\ clients' = [clients EXCEPT ![c].pc = "idle"]
    /\ UNCHANGED <<envVars, faultVars, parseVars, clock, muts, ruleVars, hs, requests, MatchChan, chanClosed,
                   TotalCerts, TotalMatches, workerVars, mainVars, sendOnClosed,
                   pushers, pushes>>

\* ClearMatches: config.CacheMutex.Lock()
ClearMatchesLock(c) ==
    /\ clients[c].pc = "idle"
    /\ CanLock
    /\ CacheMutex' = [CacheMutex EXCEPT !.writer = <<"client", c>>]
    /\ clients' = [clients EXCEPT ![c] = [IdleClient EXCEPT !.op = "ClearMatches", !.pc = "clear"]]
    /\ UNCHANGED <<envVars, faultVars, parseVars, clock, muts, ruleVars, hs, requests, MatchChan, chanClosed,
                   TotalCerts, TotalMatches, workerVars, mainVars, sendOnClosed,
                   pushers, pushes>>

\* ClearMatches: config.RecentMatches = nil
ClearMatchesClear(c) ==
    /\ clients[c].pc = "clear"
    /\ RecentMatches' = <<>>
    /\ pushes' = <<>>
    /\ clients' = [clients EXCEPT ![c].pc = "unlock"]
    /\ UNCHANGED <<envVars, faultVars, parseVars, clock, muts, ruleVars, hs, requests, MatchChan, chanClosed,
                   TotalCerts, TotalMatches, ws, db, flushLog, mainVars, sendOnClosed,
                   CacheMutex, pushers>>

\* ClearMatches: config.CacheMutex.Unlock()
ClearMatchesUnlock(c) ==
    /\ clients[c].pc = "unlock"
    /\ CacheMutex' = [CacheMutex EXCEPT !.writer = NoHolder]
    /\ clients' = [clients EXCEPT ![c].pc = "idle"]
    /\ UNCHANGED <<envVars, faultVars, parseVars, clock, muts, ruleVars, hs, requests, MatchChan, chanClosed,
                   TotalCerts, TotalMatches, workerVars, mainVars, sendOnClosed,
                   pushers, pushes>>

\* Metrics: "recent_matches": len(config.RecentMatches), read with no lock
Metrics(c) ==
    /\ clients[c].pc = "idle"
    /\ clients' = [clients EXCEPT ![c] = [IdleClient EXCEPT !.op = "Metrics",
                                                          !.len = Len(RecentMatches)]]
    /\ UNCHANGED <<envVars, faultVars, parseVars, clock, muts, ruleVars, hs, requests, MatchChan, chanClosed,
                   TotalCerts, TotalMatches, workerVars, mainVars, sendOnClosed,
                   CacheMutex, pushers, pushes>>

\* a caller (parseRule, the rule editor) hands the text parseIn to Parse
ParseExpr ==
    /\ ~parseOut.done
    /\ parseOut' = Parsed(Parse(parseIn))
    /\ UNCHANGED <<envVars, faultVars, cacheVars, clock, muts, ruleVars, hs, requests, MatchChan,
                   chanClosed, TotalCerts, TotalMatches, workerVars, mainVars, sendOnClosed,
                   parseIn>>

(***************************************************************************)
(* main: shutdown                                                          *)
(***************************************************************************)
\* the shutdown goroutine receives the signal and calls srv.Shutdown: the
\* listeners are closed, ListenAndServe returns ErrServerClosed
ShutdownSignal ==
    /\ Running
    /\ srvPc = "waiting"
    /\ srvPc' = "shutdown"
    /\ UNCHANGED <<envVars, faultVars, cacheVars, parseVars, clock, muts, ruleVars, hs, requests, MatchChan, chanClosed, TotalCerts,
                   TotalMatches, workerVars, dbClosed, mainPc, shutdownTimedOut,
                   sendOnClosed>>

\* srv.Shutdown returns nil once no request is being served
ShutdownReturn ==
    /\ Running
    /\ srvPc = "shutdown"
    /\ \A h \in Handlers : ~Active(h)
    /\ srvPc' = "closing"
    /\ UNCHANGED <<envVars, faultVars, cacheVars, parseVars, clock, muts, ruleVars, hs, requests, MatchChan, chanClosed, TotalCerts,
                   TotalMatches, workerVars, dbClosed, mainPc, shutdownTimedOut,
                   sendOnClosed>>

\* srv.Shutdown returns the error of its context after 30 seconds while a
\* request is still being served; the error is logged
ShutdownTimeout ==
    /\ Running
    /\ srvPc = "shutdown"
    /\ \E h \in Handlers : Active(h)
    /\ srvPc' = "closing"
    /\ shutdownTimedOut' = TRUE
    /\ UNCHANGED <<envVars, faultVars, cacheVars, parseVars, clock, muts, ruleVars, hs, requests, MatchChan, chanClosed, TotalCerts,
                   TotalMatches, workerVars, dbClosed, mainPc, sendOnClosed>>

\* close(config.MatchChan)
CloseMatchChan ==
    /\ Running
    /\ srvPc = "closing"
    /\ chanClosed' = TRUE
    /\ srvPc' = "done"
    /\ UNCHANGED <<envVars, faultVars, cacheVars, parseVars, clock, muts, ruleVars, hs, requests, MatchChan, TotalCerts, TotalMatches,
                   workerVars, dbClosed, mainPc, shutdownTimedOut, sendOnClosed>>

\* main: ListenAndServe has returned ErrServerClosed, main returns and its
\* deferred db.Close() runs
MainReturn ==
    /\ mainPc = "serving"
    /\ srvPc # "waiting"
    /\ dbClosed' = TRUE
    /\ mainPc' = "returned"
    /\ UNCHANGED <<envVars, faultVars, cacheVars, parseVars, clock, muts, ruleVars, hs, requests, MatchChan, chanClosed, TotalCerts,
                   TotalMatches, workerVars, srvPc, shutdownTimedOut, sendOnClosed>>

\* the process exits when main has returned: every goroutine stops
ProcessExit ==
    /\ mainPc = "returned"
    /\ mainPc' = "exited"
    /\ UNCHANGED <<envVars, faultVars, cacheVars, parseVars, clock, muts, ruleVars, hs, requests, MatchChan, chanClosed, TotalCerts,
                   TotalMatches, workerVars, dbClosed, srvPc, shutdownTimedOut,
                   sendOnClosed>>

(***************************************************************************)
(* CreateRule, UpdateRule, DeleteRule, ToggleRule                          *)
(***************************************************************************)
\* a file that exists and holds nothing: os.WriteFile has truncated it, or it
\* lists no rules; yaml.Unmarshal leaves RuleFile.Rules empty
EmptyFile == [exists |-> TRUE, yamlOk |-> TRUE, rules |-> <<>>]

NoConfig == [name |-> "", keywords |-> <<>>, priority |-> "", enabled |-> FALSE]

\* pathParts[0] of strings.Split(strings.TrimPrefix(r.URL.Path, prefix), "/");
\* path is the sequence of the segments after the prefix
PathName(path) == IF path = <<>> THEN "" ELSE path[1]

\* the index of the first entry named name, 0 if there is none
RECURSIVE FirstNamed(_, _, _)
FirstNamed(rules, name, i) ==
    IF i > Len(rules) THEN 0
    ELSE IF rules[i].name = name THEN i
    ELSE FirstNamed(rules, name, i + 1)

\* a variant of CreateRule without the look for the name
CreateRuleApplyUnchecked(file, body) ==
    [status |-> "ok", file |-> [file EXCEPT !.rules = Append(file.rules, body)]]

\* CreateRule on the rule file as read: [status, file]
CreateRuleApply(file, body) ==
    IF FirstNamed(file.rules, body.name, 1) # 0
    THEN [status |-> "rule with this name already exists", file |-> file]
    ELSE [status |-> "ok", file |-> [file EXCEPT !.rules = Append(file.rules, body)]]

\* UpdateRule on the rule file as read: the first entry named ruleName is
\* replaced by the body
UpdateRuleApply(file, ruleName, body) ==
    IF FirstNamed(file.rules, ruleName, 1) = 0
    THEN [status |-> "rule not found", file |-> file]
    ELSE [status |-> "ok",
          file |-> [file EXCEPT !.rules[FirstNamed(file.rules, ruleName, 1)] = body]]

\* DeleteRule on the rule file as read: every entry named ruleName is skipped
DeleteRuleApply(file, ruleName) ==
    IF FirstNamed(file.rules, ruleName, 1) = 0
    THEN [status |-> "rule not found", file |-> file]
    ELSE [status |-> "ok",
          file |-> [file EXCEPT !.rules = SelectSeq(file.rules,
                                                    LAMBDA c : c.name # ruleName)]]

\* ToggleRule on the rule file as read: Enabled of the first entry named
\* ruleName is negated
ToggleRuleApply(file, ruleName) ==
    IF FirstNamed(file.rules, ruleName, 1) = 0
    THEN [status |-> "rule not found", file |-> file]
    ELSE [status |-> "ok",
          file |-> [file EXCEPT !.rules[FirstNamed(file.rules, ruleName, 1)].enabled =
                                    ~file.rules[FirstNamed(file.rules, ruleName, 1)].enabled]]

\* a mutation request: kind, path (the segments after the route prefix) and
\* body (the RuleConfig decoded from the request)
Op(kind, path, body) == [kind |-> kind, path |-> path, body |-> body]

NoOp == Op("", <<>>, NoConfig)

\* the handler from its start to the write of the file: [status, file]
MutationApply(op, file) ==
    IF op.kind # "create" /\ PathName(op.path) = ""
    THEN [status |-> "rule name required", file |-> file]
    ELSE IF ~file.exists THEN [status |-> "failed to read rules file", file |-> file]
    ELSE IF ~file.yamlOk THEN [status |-> "failed to parse rules file", file |-> file]
    ELSE IF op.kind = "create" THEN CreateRuleApply(file, op.body)
    ELSE IF op.kind = "update" THEN UpdateRuleApply(file, PathName(op.path), op.body)
    ELSE IF op.kind = "delete" THEN DeleteRuleApply(file, PathName(op.path))
    ELSE ToggleRuleApply(file, PathName(op.path))

\* the status of the response of a mutation that went through
SuccessStatus(op) ==
    IF op.kind = "create" THEN "rule created"
    ELSE IF op.kind = "update" THEN "rule updated"
    ELSE IF op.kind = "delete" THEN "rule deleted"
    ELSE "rule toggled"

IdleMut ==
    [pc |-> "idle", op |-> NoOp, ruleFile |-> AbsentFile, engine |-> NilEngine,
     status |-> ""]

\* the handler up to the rule file in memory: the path and the body are
\* decoded, the file is read and unmarshalled, the change is made in memory or
\* the request is rejected
MutRead(a, ops) ==
    /\ Running
    /\ muts[a].pc = "idle"
    /\ \E op \in ops :
          muts' = [muts EXCEPT ![a] =
                      IF MutationApply(op, rulesFile).status = "ok"
                      THEN [IdleMut EXCEPT !.pc = "modified", !.op = op,
                                !.ruleFile = MutationApply(op, rulesFile).file]
                      ELSE [IdleMut EXCEPT !.pc = "done", !.op = op,
                                !.status = MutationApply(op, rulesFile).status]]
    /\ UNCHANGED <<envVars, faultVars, cacheVars, parseVars, clock, ruleVars, hs, requests, MatchChan, chanClosed, TotalCerts,
                   TotalMatches, workerVars, mainVars, sendOnClosed>>

\* os.WriteFile opens the file with O_TRUNC: the file is empty until the data
\* is written
MutTruncate(a) ==
    /\ Running
    /\ muts[a].pc = "modified"
    /\ rulesFile' = EmptyFile
    /\ muts' = [muts EXCEPT ![a].pc = "truncated"]
    /\ UNCHANGED <<envVars, faultVars, cacheVars, parseVars, clock, RuleEngine, adm, hs, requests, MatchChan, chanClosed, TotalCerts,
                   TotalMatches, workerVars, mainVars, sendOnClosed>>

\* os.WriteFile writes the marshalled rule file
MutWrite(a) ==
    /\ Running
    /\ muts[a].pc = "truncated"
    /\ rulesFile' = muts[a].ruleFile
    /\ muts' = [muts EXCEPT ![a].pc = "written"]
    /\ UNCHANGED <<envVars, faultVars, cacheVars, parseVars, clock, RuleEngine, adm, hs, requests, MatchChan, chanClosed, TotalCerts,
                   TotalMatches, workerVars, mainVars, sendOnClosed>>

\* rules.LoadRules(config.RulesFile) of the handler, and the response when it
\* fails
MutLoad(a) ==
    /\ Running
    /\ muts[a].pc = "written"
    /\ \E r \in LoadRules(rulesFile) :
          muts' = [muts EXCEPT ![a] =
                      IF r.err
                      THEN [@ EXCEPT !.pc = "done", !.status = "failed to reload rules"]
                      ELSE [@ EXCEPT !.pc = "loaded", !.engine = r.engine]]
    /\ UNCHANGED <<envVars, faultVars, cacheVars, parseVars, clock, ruleVars, hs, requests, MatchChan, chanClosed, TotalCerts,
                   TotalMatches, workerVars, mainVars, sendOnClosed>>

\* config.RuleEngine.Store(engine) of the handler and the response
MutStore(a) ==
    /\ Running
    /\ muts[a].pc = "loaded"
    /\ RuleEngine' = muts[a].engine
    /\ muts' = [muts EXCEPT ![a].pc = "done", ![a].status = SuccessStatus(muts[a].op)]
    /\ UNCHANGED <<envVars, faultVars, cacheVars, parseVars, clock, rulesFile, adm, hs, requests, MatchChan, chanClosed, TotalCerts,
                   TotalMatches, workerVars, mainVars, sendOnClosed>>

(***************************************************************************)
(* inputs                                                                  *)
(***************************************************************************)
\* keyword expressions as they are written in the rule file
KwA == <<"a">>
KwB == <<"b">>
KwANotB == <<"a", " ", "A", "N", "D", " ", "N", "O", "T", " ", "b">>
KwNotB == <<"N", "O", "T", " ", "b">>
KwParen ==
    <<"(", "a", " ", "O", "R", " ", "B", ")", " ", "A", "N", "D", " ",
      "N", "O", "T", " ", "a", "b">>
KwBNotNotC ==
    <<"b", " ", "A", "N", "D", " ", "N", "O", "T", " ", "N", "O", "T", " ", "c">>
KwDangling == <<"a", " ", "A", "N", "D">>

Config(name, keywords, priority, enabled) ==
    [name |-> name, keywords |-> keywords, priority |-> priority, enabled |-> enabled]

\* the evaluation specification: rule files of up to MaxRules entries, entry i
\* named EvalRuleNames[i], and the rule file that does not exist
EvalKeywords == {KwA, KwANotB, KwNotB, KwParen, KwBNotNotC}

EvalRuleNames == <<"r1", "r2", "r3", "r4">>

EvalConfigs(i) ==
    [name : {EvalRuleNames[i]}, keywords : EvalKeywords,
     priority : {"critical", "low"}, enabled : BOOLEAN]

EvalFiles ==
    {AbsentFile} \cup
    UNION {{RuleFile(rs) : rs \in {f \in [1..n -> UNION {EvalConfigs(i) : i \in 1..n}] :
                                      \A i \in 1..n : f[i] \in EvalConfigs(i)}}
              : n \in 1..MaxRules}

\* a certificate event; the fingerprints are determined by the certificate
Event(id, dns_names, endpoints) ==
    [id |-> id, dns_names |-> dns_names, endpoints |-> endpoints,
     tbs_sha256 |-> <<"t", id>>, cert_sha256 |-> <<"s", id>>]

EvalEvents ==
    { Event("c1", <<<<"a">>>>, <<>>),
      Event("c1", <<<<"A", "b">>>>, <<>>),
      Event("c1", <<<<"c", "b">>>>, <<>>),
      Event("c1", <<<<"c">>>>, <<>>),
      Event("c1", <<<<"a">>, <<"b", "c">>>>, <<>>),
      Event("c1", <<<<>>>>, <<<<"a", "c">>, <<>>>>),
      Event("c1", <<<<"b">>, <<"a", "c", "a">>>>, <<>>),
      Event("c1", <<<<"a", "c", "b">>>>, <<>>),
      Event("c1", <<<<"a">>>>, <<UnicodeDomain>>),
      Event("c1", <<>>, <<>>) }

\* the pipeline specifications: the rule files on disk and the events
FileOne == RuleFile(<<Config("r1", KwANotB, "critical", TRUE)>>)
FileTwo ==
    RuleFile(<<Config("r2", KwB, "low", TRUE), Config("r1", KwANotB, "critical", TRUE)>>)
FileDisabled ==
    RuleFile(<<Config("r1", KwA, "critical", FALSE), Config("r2", KwA, "low", TRUE)>>)
FileDangling == RuleFile(<<Config("r1", KwA, "low", TRUE), Config("r2", KwDangling, "low", TRUE)>>)
FileNoKeywords == RuleFile(<<Config("r1", KwNotB, "low", TRUE)>>)
FileNotYaml == [exists |-> TRUE, yamlOk |-> FALSE, rules |-> <<>>]

PipeFiles == {AbsentFile, FileOne, FileTwo, FileDangling, FileNoKeywords}

PipeEvents ==
    { Event("c1", <<<<"a">>>>, <<>>),
      Event("c2", <<<<"A", "b">>>>, <<UnicodeDomain>>),
      Event("c3", <<<<"c">>>>, <<<<"c">>>>) }

\* the admin specification: the mutation requests on the rule file FileTwo
AdminOps ==
    { Op("create", <<>>, Config("r3", KwA, "low", TRUE)),
      Op("create", <<>>, Config("r1", KwB, "low", TRUE)),
      Op("update", <<"r1">>, Config("r1", KwB, "high", TRUE)),
      Op("update", <<"r1">>, Config("r2", KwA, "low", TRUE)),
      Op("update", <<"r9">>, Config("r9", KwA, "low", TRUE)),
      Op("delete", <<"r2">>, NoConfig),
      Op("delete", <<"r9">>, NoConfig),
      Op("delete", <<>>, NoConfig),
      Op("toggle", <<"r1">>, NoConfig),
      Op("toggle", <<"r2", "x">>, NoConfig),
      Op("toggle", <<"r9">>, NoConfig) }

\* the store specification: the events that are posted, on the rule file
\* FileTwo
StoreEvents ==
    { Event("c1", <<<<"a">>>>, <<>>),
      Event("c2", <<<<"A", "b">>>>, <<>>) }

\* the load specification: the rule files that are put on disk and reloaded
FileMediumHigh ==
    RuleFile(<<Config("r1", KwA, "medium", TRUE), Config("r2", KwB, "high", TRUE)>>)
FileTies == RuleFile(<<Config("r1", KwA, "high", TRUE), Config("r2", KwA, "high", TRUE)>>)

LoadFiles ==
    {AbsentFile, EmptyFile, FileOne, FileTwo, FileDisabled, FileDangling,
     FileNoKeywords, FileNotYaml, FileMediumHigh, FileTies}

(***************************************************************************)
(* specifications                                                          *)
(***************************************************************************)
\* the state when main starts to serve: the rule file has been loaded without
\* error and the engine published, the channel made, the workers started
InitTexts(files, texts) ==
    /\ rulesFile \in files
    /\ RuleEngine \in {r.engine : r \in {x \in LoadRules(rulesFile) : ~x.err}}
    /\ adm = IdleAdmin
    /\ muts = [a \in Admins |-> IdleMut]
    /\ hs = [h \in Handlers |-> IdleHandler]
    /\ requests = 0
    /\ MatchChan = <<>>
    /\ chanClosed = FALSE
    /\ TotalCerts = 0
    /\ TotalMatches = 0
    /\ ws = [w \in Workers |-> NewWorker]
    /\ RecentMatches = <<>>
    /\ db = CreatePartitionTable(<<>>, tableForDate(0))
    /\ dbClosed = FALSE
    /\ flushLog = <<>>
    /\ sendOnClosed = FALSE
    /\ srvPc = "waiting"
    /\ mainPc = "serving"
    /\ shutdownTimedOut = FALSE
    /\ clock = 0
    /\ env = NoEnv
    /\ PartitionRetentionDays = DefaultRetentionDays
    /\ CleanupIntervalHours = DefaultCleanupIntervalHours
    /\ startPc = "serving"
    /\ sweeper = NewTicker(0, DefaultCleanupIntervalHours)
    /\ CacheInit
    /\ parseIn \in texts
    /\ parseOut = NotParsed
    /\ dbFault = FALSE
    /\ faultAt = 0

\* the program serving on the rule file, no expression being parsed
InitWith(files) == InitTexts(files, {<<>>})

\* one request on every engine that LoadRules returns for the rule files of
\* the evaluation inputs
EvalInit == InitWith(EvalFiles)

EvalNext ==
    \/ HookStart(1, EvalEvents, 1)
    \/ HookFind(1)
    \/ HookEvaluate(1)
    \/ HookSend(1)

SpecEval == EvalInit /\ [][EvalNext]_vars

\* the webhook handlers while the rule file is edited and reloaded
Init == InitWith(PipeFiles)

Next ==
    \/ \E h \in Handlers : HookStart(h, PipeEvents, MaxRequests)
    \/ \E h \in Handlers : HookReject(h, MaxRequests)
    \/ \E h \in Handlers : HookFind(h)
    \/ \E h \in Handlers : HookEvaluate(h)
    \/ \E h \in Handlers : HookSend(h)
    \/ EditRulesFile(PipeFiles)
    \/ ReloadRead
    \/ ReloadBuild
    \/ ReloadStore
    \/ ReloadFail

Spec == Init /\ [][Next]_vars

\* the webhook handlers, the persistence workers and the shutdown of main on
\* the engine of one rule file
ShutdownInit == InitWith({FileTwo})

ShutdownNext ==
    \/ \E h \in Handlers : HookStart(h, PipeEvents, MaxRequests)
    \/ \E h \in Handlers : HookFind(h)
    \/ \E h \in Handlers : HookEvaluate(h)
    \/ \E h \in Handlers : HookSend(h)
    \/ \E w \in Workers : TimerFire(w)
    \/ \E w \in Workers : WorkerReceive(w)
    \/ \E w \in Workers : WorkerTimeout(w)
    \/ \E w \in Workers : WorkerClosed(w)
    \/ ShutdownSignal
    \/ ShutdownReturn
    \/ ShutdownTimeout
    \/ CloseMatchChan
    \/ MainReturn
    \/ ProcessExit

SpecShutdown == ShutdownInit /\ [][ShutdownNext]_vars

\* the admin mutation requests and the reload on the rule file FileTwo
AdminInit == InitWith({FileTwo})

AdminNext ==
    \/ \E a \in Admins : MutRead(a, AdminOps)
    \/ \E a \in Admins : MutTruncate(a)
    \/ \E a \in Admins : MutWrite(a)
    \/ \E a \in Admins : MutLoad(a)
    \/ \E a \in Admins : MutStore(a)
    \/ ReloadRead
    \/ ReloadBuild
    \/ ReloadStore
    \/ ReloadFail

SpecAdmin == AdminInit /\ [][AdminNext]_vars

\* The admin mutations whose reload can fail: a rule whose expression does
\* not parse is created or put in place of another, and the rules are deleted
\* down to none.
MutateOps ==
    { Op("create", <<>>, Config("r3", KwDangling, "low", TRUE)),
      Op("create", <<>>, Config("r3", KwA, "low", TRUE)),
      Op("create", <<>>, Config("r1", KwA, "low", TRUE)),
      Op("update", <<"r1">>, Config("r1", KwDangling, "low", TRUE)),
      Op("delete", <<"r1">>, NoConfig),
      Op("delete", <<"r2">>, NoConfig),
      Op("delete", <<"r9">>, NoConfig),
      Op("toggle", <<"r2">>, NoConfig) }

MutateNext ==
    \/ \E a \in Admins : MutRead(a, MutateOps)
    \/ \E a \in Admins : MutTruncate(a)
    \/ \E a \in Admins : MutWrite(a)
    \/ \E a \in Admins : MutLoad(a)
    \/ \E a \in Admins : MutStore(a)

SpecMutate == AdminInit /\ [][MutateNext]_vars

\* the rule file is edited on disk and reloaded through the admin endpoint
LoadInit == InitWith(LoadFiles)

LoadNext ==
    \/ EditRulesFile(LoadFiles)
    \/ ReloadRead
    \/ ReloadBuild
    \/ ReloadStore
    \/ ReloadFail

SpecLoad == LoadInit /\ [][LoadNext]_vars

\* webhook requests one after the other, the workers, and the clock
StoreInit == InitWith({FileTwo})

StoreNext ==
    \/ HookStart(1, StoreEvents, MaxStoreRequests)
    \/ HookFind(1)
    \/ HookEvaluate(1)
    \/ HookSend(1)
    \/ \E w \in Workers : TimerFire(w)
    \/ \E w \in Workers : WorkerReceive(w)
    \/ \E w \in Workers : WorkerTimeout(w)
    \/ Tick

SpecStore == StoreInit /\ [][StoreNext]_vars

\* The store with faults: as the store specification, on one day, with a
\* database that refuses transactions from time to time; the workers are
\* scheduled fairly and their timers fire.
FaultNext ==
    \/ HookStart(1, StoreEvents, MaxRequests)
    \/ HookFind(1)
    \/ HookEvaluate(1)
    \/ HookSend(1)
    \/ \E w \in Workers : TimerFire(w)
    \/ \E w \in Workers : WorkerReceive(w)
    \/ \E w \in Workers : WorkerTimeout(w)
    \/ DbFault

SpecFault == StoreInit /\ [][FaultNext]_vars

WorkerFairness ==
    \A w \in Workers :
        /\ WF_vars(TimerFire(w))
        /\ WF_vars(WorkerReceive(w))
        /\ WF_vars(WorkerTimeout(w))

SpecFaultFair == SpecFault /\ WorkerFairness

\* The workers on an open bus: three requests, the workers scheduled fairly
\* and their timers firing.
FlushNext ==
    \/ HookStart(1, StoreEvents, MaxStoreRequests)
    \/ HookFind(1)
    \/ HookEvaluate(1)
    \/ HookSend(1)
    \/ \E w \in Workers : TimerFire(w)
    \/ \E w \in Workers : WorkerReceive(w)
    \/ \E w \in Workers : WorkerTimeout(w)

SpecFlushFair == StoreInit /\ [][FlushNext]_vars /\ WorkerFairness

\* The store with faults over several days.
AtomicNext ==
    \/ FaultNext
    \/ Tick

SpecAtomic == StoreInit /\ [][AtomicNext]_vars

\* The retention: the program starts on SweepDay over the database file of
\* earlier runs, with or without the two variables in the environment.
RetentionEnvs ==
    [PARTITION_RETENTION_DAYS : {<<>>, <<"3", "0">>, <<"4", "8">>, <<"2">>, <<"3", "0", "d">>},
     CLEANUP_INTERVAL_HOURS : {<<>>, <<"1", "2">>, <<"4", "8">>}]

PartitionDays == {0, 1, SweepDay - 2, SweepDay - 1, SweepDay}

OtherTables == {<<"users">>, <<"matches", "archive", "x">>}

Databases ==
    {[tbl \in {tableForDate(d * TicksPerDay) : d \in days} \cup OtherTables |-> {}]
         : days \in SUBSET PartitionDays}

LastSweepClock == (SweepDay + 2) * TicksPerDay - 1

RetentionInit ==
    /\ rulesFile = FileTwo
    /\ RuleEngine \in {r.engine : r \in {x \in LoadRules(rulesFile) : ~x.err}}
    /\ adm = IdleAdmin
    /\ muts = [a \in Admins |-> IdleMut]
    /\ hs = [h \in Handlers |-> IdleHandler]
    /\ requests = 0
    /\ MatchChan = <<>>
    /\ chanClosed = FALSE
    /\ TotalCerts = 0
    /\ TotalMatches = 0
    /\ ws = [w \in Workers |-> NewWorker]
    /\ RecentMatches = <<>>
    /\ db \in Databases
    /\ dbClosed = FALSE
    /\ flushLog = <<>>
    /\ sendOnClosed = FALSE
    /\ srvPc = "waiting"
    /\ mainPc = "serving"
    /\ shutdownTimedOut = FALSE
    /\ clock \in (SweepDay * TicksPerDay)..(SweepDay * TicksPerDay + TicksPerDay - 1)
    /\ env \in RetentionEnvs
    /\ PartitionRetentionDays = DefaultRetentionDays
    /\ CleanupIntervalHours = DefaultCleanupIntervalHours
    /\ startPc = "cleanup"
    /\ sweeper = NoTicker
    /\ CacheInit
    /\ parseIn = <<>>
    /\ parseOut = NotParsed
    /\ dbFault = FALSE
    /\ faultAt = 0

RetentionNext ==
    \/ StartupCleanup
    \/ StartSweeper
    \/ SweeperNewTicker
    \/ ConfigureFromEnv
    \/ Sweep
    \/ TickUntil(LastSweepClock)

SpecRetention == RetentionInit /\ [][RetentionNext]_vars

\* The parser: every text of up to MaxTokens tokens of the alphabet, the
\* tokens separated by one space, and texts with other spacing.
ExprAlphabet == {<<"a">>, <<"B">>, <<"c">>, AndTok, OrTok, NotTok, LParen, RParen}

RECURSIVE JoinSpace(_)
JoinSpace(toks) ==
    IF toks = <<>> THEN <<>>
    ELSE IF Len(toks) = 1 THEN toks[1]
    ELSE toks[1] \o <<" ">> \o JoinSpace(Tail(toks))

TokenTexts == {JoinSpace(t) : t \in UNION {[1..n -> ExprAlphabet] : n \in 0..MaxTokens}}

\* a AND (b OR c), without and with spaces around the parentheses
KwAndParen == <<"a", " ", "A", "N", "D", " ", "(", "b", " ", "O", "R", " ", "c", ")">>
KwAndParenSpaced == JoinSpace(<<KwA, AndTok, LParen, KwB, OrTok, <<"c">>, RParen>>)

\* the README's (paypal OR stripe) AND login NOT official and
\* paypal AND (login OR secure OR account) NOT paypal.com, with
\* one-letter keywords
KwReadmeFeature ==
    <<"(", "a", " ", "O", "R", " ", "b", ")", " ", "A", "N", "D", " ", "c", " ",
      "N", "O", "T", " ", "d">>
KwReadmeRule ==
    <<"a", " ", "A", "N", "D", " ", "(", "b", " ", "O", "R", " ", "c", " ", "O", "R", " ",
      "d", ")", " ", "N", "O", "T", " ", "a", ".", "c">>

OtherTexts ==
    {<<" ">>, <<" ", "\t", "\n">>, <<" ", "a", "\t">>, <<"(", "a", ")", "A", "N", "D">>,
     <<"a", "(">>, <<"a", "n", "d">>, <<"a", " ", "a", "n", "d", " ", "b">>,
     KwAndParen, KwAndParenSpaced, KwReadmeFeature, KwReadmeRule, KwParen, KwBNotNotC}

\* x AND NOT (NOT k), with one space between the tokens and as it is written
KeywordToks == {<<"a">>, <<"B">>, <<"c">>}

AndNotNot(x, k) ==
    x \o <<" ">> \o AndTok \o <<" ">> \o NotTok \o <<" ", "(">> \o NotTok \o <<" ">> \o k
      \o <<")">>

AndNotNotSpaced(x, k) == JoinSpace(<<x, AndTok, NotTok, LParen, NotTok, k, RParen>>)

DoubleNotTexts ==
    {AndNotNot(x, k) : x \in KeywordToks, k \in KeywordToks}
        \cup {AndNotNotSpaced(x, k) : x \in KeywordToks, k \in KeywordToks}

ParseInit == InitTexts({FileTwo}, TokenTexts \cup OtherTexts \cup DoubleNotTexts)

ParseNext == ParseExpr

SpecParse == ParseInit /\ [][ParseNext]_vars

\* The recent cache: the workers push the records they receive, requests
\* read, clear and measure the cache.
CacheMatches ==
    {NewMatch(ev, ev.dns_names, <<<<"a">>>>, [RuleName |-> "r1", Priority |-> "critical"], 0)
         : ev \in StoreEvents}

CacheNext ==
    \/ \E w \in Workers, m \in CacheMatches : AddToRecentLock(w, m)
    \/ \E w \in Workers : AddToRecentAppend(w)
    \/ \E w \in Workers : AddToRecentTrim(w)
    \/ \E w \in Workers : AddToRecentUnlock(w)
    \/ \E c \in Clients : GetMatchesRLock(c)
    \/ \E c \in Clients : GetMatchesRead(c)
    \/ \E c \in Clients : GetMatchesRUnlock(c)
    \/ \E c \in Clients : ClearMatchesLock(c)
    \/ \E c \in Clients : ClearMatchesClear(c)
    \/ \E c \in Clients : ClearMatchesUnlock(c)
    \/ \E c \in Clients : Metrics(c)

SpecCache == InitWith({FileTwo}) /\ [][CacheNext]_vars

(***************************************************************************)
(* properties                                                              *)
(***************************************************************************)
\* keyword k is a substring of at least one lower-cased domain
OccursIn(k, domains) == \E i \in 1..Len(domains) : Contains(ToLower(domains[i]), k)

\* the rule's expression under the assignment "k is true iff k occurs in a domain"
TrueOn(rule, domains) ==
    ExprEvaluate(rule.Expression,
                 {k \in Range(ExtractKeywords(rule.Expression)) : OccursIn(k, domains)})

\* the enabled rules of engine e whose expression is true on the domains
Firing(e, domains) ==
    {i \in 1..Len(e.Rules) : e.Rules[i].Enabled /\ TrueOn(e.Rules[i], domains)}

Min(S) == CHOOSE x \in S : \A y \in S : x <= y

\* handler h has evaluated the rules for an event with a positive keyword
Evaluated(h) ==
    hs[h].pc \in {"evaluated", "done"} /\ Len(hs[h].matchedKeywords) > 0

\* C1: for an event in which Find found a keyword, Evaluate takes the
\* expression of each enabled rule to be true exactly when it is true under
\* "k is true iff k is a substring of a lower-cased domain of the event", for
\* the positive keywords and the keywords under NOT alike; it returns no
\* match exactly when no enabled rule is true under that assignment.
C1_NotSemantics ==
    \A h \in Handlers :
        Evaluated(h) =>
            /\ \A i \in 1..Len(hs[h].engine.Rules) :
                  hs[h].engine.Rules[i].Enabled =>
                      (ExprEvaluate(hs[h].engine.Rules[i].Expression,
                                    RuleKeywordSet(hs[h].engine.Rules[i],
                                                   Range(hs[h].matchedKeywords),
                                                   hs[h].allDomains))
                         <=> TrueOn(hs[h].engine.Rules[i], hs[h].allDomains))
            /\ hs[h].ruleMatch.null <=> Firing(hs[h].engine, hs[h].allDomains) = {}

\* C1 witness: a NOT keyword that the automaton does not know occurs in a
\* domain and suppresses a rule whose positive part is satisfied
C1_Witness ==
    \E h \in Handlers :
        /\ Evaluated(h)
        /\ \E i \in 1..Len(hs[h].engine.Rules) :
              /\ hs[h].engine.Rules[i].Enabled
              /\ \E n \in NotKeywords(hs[h].engine.Rules[i]) :
                    /\ OccursIn(n, hs[h].allDomains)
                    /\ n \notin Range(hs[h].matchedKeywords)
              /\ ExprEvaluate(hs[h].engine.Rules[i].Expression, Range(hs[h].matchedKeywords))
              /\ ~TrueOn(hs[h].engine.Rules[i], hs[h].allDomains)
        /\ hs[h].ruleMatch.null

\* C2: Evaluate returns the first rule in engine order that is enabled and
\* true, with the found keywords; no enabled rule of strictly higher
\* priority is true; it returns no match only if no enabled rule is true.
C2_FirstMatchWins ==
    \A h \in Handlers :
        Evaluated(h) =>
            IF Firing(hs[h].engine, hs[h].allDomains) = {}
            THEN hs[h].ruleMatch.null
            ELSE /\ hs[h].ruleMatch =
                       [null |-> FALSE,
                        RuleName |->
                            hs[h].engine.Rules[Min(Firing(hs[h].engine, hs[h].allDomains))].Name,
                        Priority |->
                            hs[h].engine.Rules[Min(Firing(hs[h].engine, hs[h].allDomains))].Priority,
                        Keywords |-> hs[h].matchedKeywords]
                 /\ \A j \in Firing(hs[h].engine, hs[h].allDomains) :
                        priorityOrder(hs[h].engine.Rules[j].Priority)
                            >= priorityOrder(hs[h].ruleMatch.Priority)

\* C2 witness: two enabled rules are true and the first one is returned
C2_Witness ==
    \E h \in Handlers :
        /\ Evaluated(h)
        /\ Cardinality(Firing(hs[h].engine, hs[h].allDomains)) >= 2
        /\ \E j \in Firing(hs[h].engine, hs[h].allDomains) :
              hs[h].engine.Rules[j].Name # hs[h].ruleMatch.RuleName
        /\ hs[h].ruleMatch.RuleName =
               hs[h].engine.Rules[Min(Firing(hs[h].engine, hs[h].allDomains))].Name

\* the disabled rules of engine e whose expression is true on the domains
DisabledTrue(e, domains) ==
    {i \in 1..Len(e.Rules) : ~e.Rules[i].Enabled /\ TrueOn(e.Rules[i], domains)}

\* C3: the rule Evaluate returns, and the rule of every match sent, is an
\* enabled rule of the engine and never one of its disabled rules; when a
\* disabled rule is true, an enabled rule that is true is returned instead.
C3_DisabledNeverMatch ==
    \A h \in Handlers :
        Evaluated(h) =>
            /\ ~hs[h].ruleMatch.null =>
                  /\ \E i \in 1..Len(hs[h].engine.Rules) :
                        /\ hs[h].engine.Rules[i].Enabled
                        /\ hs[h].engine.Rules[i].Name = hs[h].ruleMatch.RuleName
                  /\ \A i \in 1..Len(hs[h].engine.Rules) :
                        ~hs[h].engine.Rules[i].Enabled =>
                            hs[h].engine.Rules[i].Name # hs[h].ruleMatch.RuleName
            /\ \A k \in 1..Len(hs[h].sent) :
                  \A i \in 1..Len(hs[h].engine.Rules) :
                      ~hs[h].engine.Rules[i].Enabled =>
                          hs[h].engine.Rules[i].Name # hs[h].sent[k].MatchedRule
            /\ (DisabledTrue(hs[h].engine, hs[h].allDomains) # {}
                  /\ Firing(hs[h].engine, hs[h].allDomains) # {}) =>
                  /\ ~hs[h].ruleMatch.null
                  /\ hs[h].ruleMatch.RuleName =
                         hs[h].engine.Rules[Min(Firing(hs[h].engine, hs[h].allDomains))].Name

\* C3 witness: a disabled rule of higher priority is true, and the match that
\* was sent names the enabled rule of lower priority
C3_Witness ==
    \E h \in Handlers :
        /\ hs[h].pc = "done"
        /\ Len(hs[h].sent) = 1
        /\ \E i \in DisabledTrue(hs[h].engine, hs[h].allDomains) :
              \E j \in Firing(hs[h].engine, hs[h].allDomains) :
                  /\ priorityOrder(hs[h].engine.Rules[i].Priority)
                        < priorityOrder(hs[h].engine.Rules[j].Priority)
                  /\ hs[h].sent[1].MatchedRule = hs[h].engine.Rules[j].Name

\* the engines that LoadRules returns without error for the rule files
LoadedEngines ==
    {r.engine : r \in {x \in UNION {LoadRules(f) : f \in PipeFiles} : ~x.err}}

\* the match that handler h builds for its event
MatchOf(h) ==
    NewMatch(hs[h].event, ExpandDomains(RequestDomains(hs[h].event)),
             hs[h].matchedKeywords, hs[h].ruleMatch, hs[h].now)

\* C4: a webhook event puts at most one Match on the bus, and only when
\* Evaluate returned a rule that is enabled and true on the expanded domains of
\* the event; the Match carries the name and the priority of that rule and the
\* whole expanded domain list; the bus grows by nothing else.
C4_OneMatchPerEvent ==
    /\ [](\A h \in Handlers :
            /\ Len(hs[h].sent) + hs[h].dropped <= 1
            /\ Len(hs[h].sent) + hs[h].dropped = 1 =>
                  /\ ~hs[h].ruleMatch.null
                  /\ \E i \in Firing(hs[h].engine, ExpandDomains(RequestDomains(hs[h].event))) :
                        /\ hs[h].engine.Rules[i].Name = hs[h].ruleMatch.RuleName
                        /\ hs[h].engine.Rules[i].Priority = hs[h].ruleMatch.Priority
            /\ hs[h].sent # <<>> =>
                  /\ hs[h].sent[1].MatchedRule = hs[h].ruleMatch.RuleName
                  /\ hs[h].sent[1].Priority = hs[h].ruleMatch.Priority
                  /\ hs[h].sent[1].Domains = ExpandDomains(RequestDomains(hs[h].event))
                  /\ hs[h].sent[1].CertID = hs[h].event.id)
    /\ [][MatchChan' # MatchChan =>
            \E h \in Handlers :
                /\ hs[h].pc = "evaluated"
                /\ hs'[h].pc = "done"
                /\ MatchChan' = Append(MatchChan, MatchOf(h))]_vars

\* C4 witness: an event with two keywords and an expanded domain list has put
\* its one Match on the bus
C4_Witness ==
    \E h \in Handlers :
        /\ hs[h].pc = "done"
        /\ Len(hs[h].matchedKeywords) >= 2
        /\ Len(hs[h].allDomains) > Len(RequestDomains(hs[h].event))
        /\ Len(hs[h].sent) = 1
        /\ MatchChan = <<MatchOf(h)>>

\* C5: while the rule file is edited and reloaded, the engine a handler holds
\* is one that LoadRules returned as a whole (rules, keyword list and automaton
\* of one load), Evaluate runs on the engine Find ran on, and the published
\* engine is always such an engine.
C5_OneEnginePerRequest ==
    /\ RuleEngine \in LoadedEngines
    /\ \A h \in Handlers :
          /\ ~hs[h].engine.null =>
                /\ hs[h].engine \in LoadedEngines
                /\ hs[h].engine.Rules # <<>> =>
                      /\ hs[h].engine.built
                      /\ hs[h].engine.Keywords = ExtractAllKeywords(hs[h].engine.Rules)
          /\ ~hs[h].evalEngine.null => hs[h].evalEngine = hs[h].engine

\* C5 witness: Evaluate returned a rule of the engine the handler had loaded
\* when another engine was already published
C5_Witness ==
    \E h \in Handlers :
        /\ ~hs[h].evalEngine.null
        /\ hs[h].stale
        /\ ~hs[h].ruleMatch.null

\* the rule files with an entry that does not parse, without a positive
\* keyword, or that are not YAML
InvalidFiles == {FileDangling, FileNoKeywords, FileNotYaml}

\* C6: LoadRules returns an error and no engine for a rule file with an
\* invalid entry or no keyword to build the automaton from; a reload that
\* failed answers status failed and leaves the published engine as it was;
\* the published engine is replaced only by an engine LoadRules returned
\* without error.
C6_FailedReloadKeepsEngine ==
    /\ [](\A f \in InvalidFiles : \A r \in LoadRules(f) : r.err /\ r.engine = NilEngine)
    /\ [](adm.pc = "built" => adm.file \notin InvalidFiles)
    /\ [](adm.pc = "failed" => adm.engine = NilEngine)
    /\ [][adm.pc # "idle" /\ adm.file \in InvalidFiles =>
            /\ RuleEngine' = RuleEngine
            /\ adm'.pc = "idle" => adm'.status = "failed"]_vars
    /\ [][RuleEngine' # RuleEngine =>
            /\ adm.pc = "built"
            /\ \E r \in LoadRules(adm.file) : ~r.err /\ r.engine = RuleEngine']_vars

\* C6 witness: a reload of a rule file that does not parse has answered
\* failed, and an engine with rules is still published
C6_Witness ==
    /\ adm.pc = "idle"
    /\ adm.status = "failed"
    /\ rulesFile = FileDangling
    /\ RuleEngine.built
    /\ RuleEngine \in LoadedEngines

\* C7: the send of Hook is always possible; on a full bus the bus is left as
\* it is and the Match is dropped, otherwise the Match is appended; the bus
\* never holds more than its capacity; either way the response is status ok
\* with the number of keywords found.
C7_NonBlockingSend ==
    /\ [](Len(MatchChan) <= ChanCap)
    /\ [](\A h \in Handlers : hs[h].pc = "evaluated" => ENABLED HookSend(h))
    /\ [][\A h \in Handlers :
            hs[h].pc = "evaluated" /\ hs'[h].pc # "evaluated" =>
                /\ hs'[h].pc = "done"
                /\ hs'[h].resp = [status |-> "ok", matches |-> Len(hs[h].matchedKeywords)]
                /\ IF Len(MatchChan) >= ChanCap
                   THEN MatchChan' = MatchChan /\ hs'[h].dropped = 1
                   ELSE MatchChan' = Append(MatchChan, MatchOf(h)) /\ hs'[h].dropped = 0]_vars

\* C7 witness: a handler dropped its Match on a full bus that still holds the
\* Match of another event, and answered with the number of keywords found
C7_Witness ==
    \E h \in Handlers :
        /\ hs[h].pc = "done"
        /\ hs[h].dropped = 1
        /\ Len(MatchChan) = ChanCap
        /\ \A i \in 1..Len(MatchChan) : MatchChan[i].CertID # hs[h].event.id
        /\ hs[h].resp = [status |-> "ok", matches |-> Len(hs[h].matchedKeywords)]
        /\ Len(hs[h].matchedKeywords) >= 1

\* C8: the store is closed only after the bus has been closed and every
\* worker has exited, or after the wait of the shutdown has run into its
\* deadline; no Match is then left on the bus or in the batch of a worker.
C8_StoreClosedAfterDrain ==
    dbClosed =>
        \/ /\ chanClosed
           /\ \A w \in Workers : ws[w].pc = "exited"
           /\ MatchChan = <<>>
        \/ shutdownTimedOut

\* C9: no handler sends on the closed bus, and the bus is closed only when no
\* handler that can still publish is running.
C9_NoSendAfterClose ==
    /\ ~sendOnClosed
    /\ chanClosed => \A h \in Handlers : ~Active(h)

\* the flushes on closure of worker w
CloseFlushes(w) ==
    {i \in 1..Len(flushLog) : flushLog[i].w = w /\ flushLog[i].kind = "close"}

Succeeded(a) == muts[a].pc = "done" /\ muts[a].status = SuccessStatus(muts[a].op)

\* the rule file after the mutations of the requests order[i..] are made one
\* after the other on file, each with success; AbsentFile if one is rejected
RECURSIVE OneAfterTheOther(_, _, _)
OneAfterTheOther(file, order, i) ==
    IF i > Len(order) THEN file
    ELSE IF MutationApply(muts[order[i]].op, file).status # "ok" THEN AbsentFile
    ELSE OneAfterTheOther(MutationApply(muts[order[i]].op, file).file, order, i + 1)

\* the engines LoadRules returns without error for the file
EnginesOf(file) == {r.engine : r \in {x \in LoadRules(file) : ~x.err}}

\* C11: when every mutation request has been answered with success and no
\* reload has failed or is under way, the rule file is the one that the
\* mutations produce when made one after the other in some order on the
\* initial file, and the published engine is an engine of that file.
C11_MutationsSerialized ==
    ((\A a \in Admins : Succeeded(a)) /\ adm.pc = "idle" /\ adm.status # "failed") =>
        /\ \E order \in Orderings(Admins) :
              rulesFile = OneAfterTheOther(FileTwo, order, 1)
        /\ RuleEngine \in EnginesOf(rulesFile)

\* C12: no two rules of the published engine have the same name.
C12_UniqueNames ==
    \A i, j \in 1..Len(RuleEngine.Rules) :
        RuleEngine.Rules[i].Name = RuleEngine.Rules[j].Name => i = j

\* the rule file has an entry named name
HasName(file, name) == \E i \in 1..Len(file.rules) : file.rules[i].name = name

\* the rule file can be read and unmarshalled
Readable(file) == file.exists /\ file.yamlOk

\* C13: a create whose name is in the rule file is answered "already exists",
\* an update, delete or toggle whose name is not in the rule file is answered
\* "not found", and the step that rejects leaves the rule file and the
\* published engine as they are; a rejected request takes no further step.
C13_RejectedLeavesState ==
    /\ [][\A a \in Admins :
            (muts[a].pc = "idle" /\ muts'[a].pc # "idle" /\ Readable(rulesFile)) =>
                /\ (muts'[a].op.kind = "create"
                      /\ HasName(rulesFile, muts'[a].op.body.name)) =>
                      /\ muts'[a].pc = "done"
                      /\ muts'[a].status = "rule with this name already exists"
                /\ (muts'[a].op.kind \in {"update", "delete", "toggle"}
                      /\ PathName(muts'[a].op.path) # ""
                      /\ ~HasName(rulesFile, PathName(muts'[a].op.path))) =>
                      /\ muts'[a].pc = "done"
                      /\ muts'[a].status = "rule not found"
                /\ muts'[a].pc = "done" =>
                      /\ rulesFile' = rulesFile
                      /\ RuleEngine' = RuleEngine]_vars
    /\ [][\A a \in Admins : muts[a].pc = "done" => muts'[a] = muts[a]]_vars
    /\ [](\A a \in Admins :
            muts[a].status \in {"rule with this name already exists", "rule not found"} =>
                muts[a].pc = "done" /\ muts[a].ruleFile = AbsentFile)

\* C13 witness: a create of a name that exists and a delete of a name that does
\* not exist have been rejected, the rule file and the engine are the initial
\* ones
C13_Witness ==
    /\ \E a \in Admins :
          /\ muts[a].op.kind = "create"
          /\ muts[a].status = "rule with this name already exists"
    /\ \E a \in Admins :
          /\ muts[a].op.kind = "delete"
          /\ muts[a].status = "rule not found"
    /\ rulesFile = FileTwo
    /\ RuleEngine \in EnginesOf(FileTwo)

\* the leaves of expression e as pairs <<keyword, underNot>>: underNot tells
\* whether the path from the root to the leaf passes through a Not node
RECURSIVE Leaves(_, _)
Leaves(e, underNot) ==
    IF e[1] = "kw" THEN {<<e[2], underNot>>}
    ELSE IF e[1] = "not" THEN Leaves(e[2], TRUE)
    ELSE Leaves(e[2], underNot) \cup Leaves(e[3], underNot)

AllLeaves(e) == {l[1] : l \in Leaves(e, FALSE)}

PositiveLeaves(e) == {l[1] : l \in {x \in Leaves(e, FALSE) : ~x[2]}}

\* the lower-cased keywords that occur in the rules of e outside every NOT,
\* and those that occur in the rules of e under NOT only
PositiveOf(e) ==
    UNION {{ToLower(k) : k \in PositiveLeaves(e.Rules[i].Expression)} : i \in 1..Len(e.Rules)}

NotOnlyOf(e) ==
    UNION {{ToLower(k) : k \in AllLeaves(e.Rules[i].Expression)} : i \in 1..Len(e.Rules)}
        \ PositiveOf(e)

\* handler h has searched the domains of its event with the automaton
Searched(h) == hs[h].pc \in {"found", "evaluated", "done"}

\* C14: the pattern set of every loaded engine is the set of the lower-cased
\* keywords that occur outside every NOT in some rule: it contains the
\* positive keywords of each rule and no keyword that occurs under NOT only,
\* and Find returns no keyword that occurs under NOT only.
C14_PatternsArePositive ==
    /\ RuleEngine.Keywords = PositiveOf(RuleEngine)
    /\ \A i \in 1..Len(RuleEngine.Rules) :
          \A k \in PositiveLeaves(RuleEngine.Rules[i].Expression) :
              ToLower(k) \in RuleEngine.Keywords
    /\ RuleEngine.Keywords \cap NotOnlyOf(RuleEngine) = {}
    /\ \A h \in Handlers :
          Searched(h) => Range(hs[h].matchedKeywords) \cap NotOnlyOf(hs[h].engine) = {}

\* C14 witness: two rules of the engine share a positive keyword and a
\* keyword occurs under NOT only; that keyword occurs in a domain of the
\* event and Find has returned other keywords but not this one
C14_Witness ==
    \E h \in Handlers :
        /\ hs[h].pc = "found"
        /\ hs[h].engine = RuleEngine
        /\ \E i, j \in 1..Len(RuleEngine.Rules) :
              /\ i # j
              /\ PositiveLeaves(RuleEngine.Rules[i].Expression)
                    \cap PositiveLeaves(RuleEngine.Rules[j].Expression) # {}
        /\ \E n \in NotOnlyOf(RuleEngine) :
              /\ OccursIn(n, hs[h].allDomains)
              /\ n \notin Range(hs[h].matchedKeywords)

\* C15: for every expression of a loaded rule, ExtractPositiveKeywords gives
\* the leaf keywords that are reached from the root without passing through
\* a Not node, ExtractKeywords gives all leaf keywords, and a keyword that
\* occurs under a Not only is not among the positive keywords.
C15_ExtractLeaves ==
    \A i \in 1..Len(RuleEngine.Rules) :
        /\ Range(ExtractPositiveKeywords(RuleEngine.Rules[i].Expression))
              = PositiveLeaves(RuleEngine.Rules[i].Expression)
        /\ Range(ExtractKeywords(RuleEngine.Rules[i].Expression))
              = AllLeaves(RuleEngine.Rules[i].Expression)
        /\ \A l \in Leaves(RuleEngine.Rules[i].Expression, FALSE) :
              (l[2] /\ <<l[1], FALSE>> \notin Leaves(RuleEngine.Rules[i].Expression, FALSE))
                  => l[1] \notin Range(ExtractPositiveKeywords(RuleEngine.Rules[i].Expression))

\* C15 witness: Evaluate has extracted the keywords of 'a AND NOT b', positive
\* <<a>> and all <<a, b>>, and of 'b AND NOT NOT c', positive <<b>>
C15_Witness ==
    \E h \in Handlers :
        /\ Evaluated(h)
        /\ hs[h].engine = RuleEngine
        /\ \E i, j \in 1..Len(RuleEngine.Rules) :
              /\ RuleEngine.Rules[i].Enabled
              /\ RuleEngine.Rules[i].Keywords = KwANotB
              /\ ExtractPositiveKeywords(RuleEngine.Rules[i].Expression) = <<<<"a">>>>
              /\ ExtractKeywords(RuleEngine.Rules[i].Expression) = <<<<"a">>, <<"b">>>>
              /\ RuleEngine.Rules[j].Enabled
              /\ RuleEngine.Rules[j].Keywords = KwBNotNotC
              /\ ExtractPositiveKeywords(RuleEngine.Rules[j].Expression) = <<<<"b">>>>
              /\ ExtractKeywords(RuleEngine.Rules[j].Expression) = <<<<"b">>, <<"c">>>>

\* the engine that LoadRules has parsed from the file of the reload
ParsedEngine == LoadRulesParse(adm.file).engine

\* the file of the reload was read and all its entries were parsed
ParsedOk == ~LoadRulesParse(adm.file).err

\* C16: the construction of the engine from the parsed rules fails exactly
\* when there is at least one rule and no rule has a positive keyword; in
\* particular the load of a rule file that exists and lists no rules does
\* not fail.
C16_NoKeywordsError ==
    /\ (adm.pc = "failed" /\ ParsedOk) =>
           (Len(ParsedEngine.Rules) > 0 /\ PositiveOf(ParsedEngine) = {})
    /\ (adm.pc = "built") =>
           ~(Len(ParsedEngine.Rules) > 0 /\ PositiveOf(ParsedEngine) = {})
    /\ (adm.pc \in {"built", "failed"} /\ adm.file = EmptyFile) => adm.pc = "built"

\* C17: the absent rule file loads as the empty engine, and every request
\* that Hook serves with the empty engine ends with the response status ok,
\* matches 0; no Match is put on the bus and no counter changes.
C17_EmptyEngineNeverMatches ==
    /\ rulesFile = AbsentFile => RuleEngine = NewEmptyEngine
    /\ \A h \in Handlers :
          (hs[h].engine = NewEmptyEngine /\ hs[h].pc \notin {"idle", "loaded"}) =>
              /\ hs[h].pc = "done"
              /\ hs[h].resp = [status |-> "ok", matches |-> 0]
              /\ hs[h].sent = <<>>
              /\ MatchChan = <<>>
              /\ TotalCerts = 0
              /\ TotalMatches = 0

\* the matches that the workers have flushed with StoreBatch
Flushed == UNION {Range(flushLog[i].batch) : i \in 1..Len(flushLog)}

\* no StoreBatch has returned an error
NoStoreError == ~dbClosed /\ \A w \in Workers : ~ws[w].err

\* match r has the cert id, the rule, the priority and the domains of match m
SameRecord(r, m) ==
    /\ r.CertID = m.CertID
    /\ r.MatchedRule = m.MatchedRule
    /\ r.Priority = m.Priority
    /\ r.Domains = m.Domains

\* GetRecent(t) returns match m with its cert id, rule, priority and domains
\* for every t up to the timestamp of m, as long as its partition table exists
RecentSince(m) ==
    \A t \in 0..clock :
        (t <= m.Timestamp /\ tableForDate(m.Timestamp) \in DOMAIN db) =>
            \E r \in GetRecent(db, t, clock) : SameRecord(r, m) /\ r.Timestamp >= t

\* the flushed matches with the cert id and the keyword of m on the day of m
SameKeyAndDay(m) ==
    {m2 \in Flushed :
        /\ m2.CertID = m.CertID
        /\ m2.Keyword = m.Keyword
        /\ tableForDate(m2.Timestamp) = tableForDate(m.Timestamp)}

RowsOfKey(tables, m) ==
    IF tableForDate(m.Timestamp) \in DOMAIN tables
    THEN {row \in tables[tableForDate(m.Timestamp)] : StoreKey(row) = StoreKey(MatchRow(m))}
    ELSE {}

\* the first match of batch b that has the key and the day of b[j]
FirstOfKey(b, j) ==
    b[Min({i \in 1..j : /\ StoreKey(MatchRow(b[i])) = StoreKey(MatchRow(b[j]))
                        /\ tableForDate(b[i].Timestamp) = tableForDate(b[j].Timestamp)})]

\* the batch of the StoreBatch call of this step
FlushedNow == flushLog'[Len(flushLog')].batch

\* C19: a partition table never holds two records with the same (cert id,
\* keyword); after a flush it holds exactly one for every Match flushed, and
\* no batch fails; a record that is stored is never replaced: the record of a
\* pair is the one inserted first, from an earlier batch or earlier in the
\* same batch.
C19_FirstRecordKept ==
    /\ [](\A tbl \in DOMAIN db : \A r1, r2 \in db[tbl] : StoreKey(r1) = StoreKey(r2) => r1 = r2)
    /\ [](\A w \in Workers : ~ws[w].err)
    /\ [](\A m \in Flushed : Cardinality(RowsOfKey(db, m)) = 1)
    /\ [][\A tbl \in DOMAIN db : tbl \in DOMAIN db' /\ db[tbl] \subseteq db'[tbl]]_vars
    /\ [][flushLog' # flushLog =>
            \A j \in 1..Len(FlushedNow) :
                RowsOfKey(db', FlushedNow[j])
                    = IF RowsOfKey(db, FlushedNow[j]) # {}
                      THEN RowsOfKey(db, FlushedNow[j])
                      ELSE {MatchRow(FirstOfKey(FlushedNow, j))}]_vars

\* C19 witness: a batch held two matches of one cert id and keyword of the
\* same day with different timestamps, another worker has flushed a third
\* one in a later batch, and the table holds the record of the first only
C19_Witness ==
    \E i, j \in 1..Len(flushLog) :
        /\ i < j
        /\ flushLog[i].w # flushLog[j].w
        /\ Len(flushLog[i].batch) = 2
        /\ flushLog[i].batch[1].Timestamp < flushLog[i].batch[2].Timestamp
        /\ \A m \in {flushLog[i].batch[2], flushLog[j].batch[1]} :
              /\ StoreKey(MatchRow(m)) = StoreKey(MatchRow(flushLog[i].batch[1]))
              /\ tableForDate(m.Timestamp) = tableForDate(flushLog[i].batch[1].Timestamp)
        /\ RowsOfKey(db, flushLog[j].batch[1]) = {MatchRow(flushLog[i].batch[1])}
        /\ \A w \in Workers : ~ws[w].err

\* the cert ids that have a record with a timestamp not before since
DistinctCerts(since) ==
    UNION {{row.cert_id : row \in {x \in db[tbl] : ParseTime(x.timestamp) >= since}}
              : tbl \in DOMAIN db}

\* the cert ids of a response
CertsOf(response) == {x.cert_id : x \in response.matches}

\* the possible responses for page k of size L
PageOf(since, L, k) == GetRecentFromDB(db, since, clock, L, k * L)

\* C20: for every since-time and page size L the responses for the offsets
\* 0, L, 2L, ... partition the distinct cert ids with a record not before
\* since: no cert id is on two pages, every one is on a page, total is the
\* number of these cert ids, and has_more tells whether offset + returned is
\* below total.
C20_PagesPartition ==
    \A since \in 0..clock : \A L \in 1..MaxLimit :
        /\ \A k \in 0..MaxPage : \A r \in PageOf(since, L, k) :
              /\ r.total = Cardinality(DistinctCerts(since))
              /\ r.has_more <=> (k * L + r.count < r.total)
              /\ r.count = Cardinality(CertsOf(r))
              /\ \A k2 \in 0..MaxPage : \A r2 \in PageOf(since, L, k2) :
                    k2 # k => CertsOf(r) \cap CertsOf(r2) = {}
        /\ \A c \in DistinctCerts(since) :
              \E k \in 0..MaxPage : \E r \in PageOf(since, L, k) : c \in CertsOf(r)
(***************************************************************************)
(* partition retention                                                     *)
(***************************************************************************)

\* a step in which CleanupOldPartitions runs
SweepStep ==
    \/ startPc = "cleanup" /\ startPc' = "sweeper"
    \/ sweeper.pc = "ticking" /\ sweeper'.pc = "ticking" /\ sweeper'.next # sweeper.next

DateOf(tbl) == tbl[2]

IsDatePartition(tbl) == tbl[1] = "matches" /\ Len(tbl) = 2

\* the tables without the date partitions dated before the day
WithoutEarlier(tables, day) ==
    [tbl \in {x \in DOMAIN tables : ~(IsDatePartition(x) /\ DateOf(x) < day)} |-> tables[tbl]]

\* C21: a sweep with retention R on day T drops exactly the partitions dated
\* strictly before T - R; the partition dated T - R, the later ones and the
\* tables that are no date partition stay as they were.
C21_SweepDropsEarlierDates ==
    [][SweepStep =>
          db' = WithoutEarlier(db, (clock \div TicksPerDay) - PartitionRetentionDays)]_vars

\* a sweep off midnight has just dropped the partition dated exactly T - R
\* and kept the tables that are no date partition
C21_Witness ==
    /\ startPc = "sweeper"
    /\ clock % TicksPerDay # 0
    /\ tableForDate(clock - PartitionRetentionDays * TicksPerDay) \notin DOMAIN db
    /\ tableForDate(clock) \in DOMAIN db
    /\ OtherTables \subseteq DOMAIN db

IsNumber(s) == s # <<>> /\ \A i \in 1..Len(s) : \E d \in 1..10 : Digits[d] = s[i]

\* C30: with PARTITION_RETENTION_DAYS = N in the environment the retention
\* period of the configured program is N days.
C30_RetentionIsNDays ==
    (startPc = "serving" /\ IsNumber(env.PARTITION_RETENTION_DAYS))
        => PartitionRetentionDays = DecimalValue(env.PARTITION_RETENTION_DAYS)

\* PARTITION_RETENTION_DAYS = 30 has been read and the retention is one day
C30_Witness ==
    /\ startPc = "serving"
    /\ env.PARTITION_RETENTION_DAYS = <<"3", "0">>
    /\ PartitionRetentionDays = 1

(***************************************************************************)
(* the recent cache                                                        *)
(***************************************************************************)

\* the last n elements of a sequence
LastN(q, n) == IF Len(q) > n THEN SubSeq(q, Len(q) - n + 1, Len(q)) ELSE q

ReadsCache(c) ==
    /\ clients'[c] # clients[c]
    /\ \/ clients[c].pc = "read"
       \/ clients[c].pc = "idle" /\ clients'[c].op = "Metrics"

\* a step in which the cache is written
WritesCache == RecentMatches' # RecentMatches

\* C23: the cache is written only by the holder of the write lock (a worker
\* that appends, a request that clears), and every request that reads it,
\* the metrics endpoint reporting its length included, holds the read lock.
C23_AccessUnderLock ==
    /\ [][WritesCache => CacheMutex.writer # NoHolder]_vars
    /\ [][\A c \in Clients : ReadsCache(c) => <<"client", c>> \in CacheMutex.readers]_vars

\* the metrics endpoint has reported a length above the capacity: it read
\* the cache between the append and the trim of a worker
C23_Witness ==
    \E c \in Clients : clients[c].op = "Metrics" /\ clients[c].len > MaxRecentMatches

(***************************************************************************)
(* the parser                                                              *)
(***************************************************************************)

Kw(c) == KeywordExpr(<<c>>)

\* the text of the tokens, one space between them
Text(toks) == JoinSpace(toks)

\* Parse has returned the expression e for the text
ParsesTo(text, e) == (parseOut.done /\ parseIn = text) => (parseOut.ok /\ parseOut.e = e)

NoParens(toks) == \A i \in 1..Len(toks) : toks[i] \notin {LParen, RParen}

\* the three levels of the grammar without parentheses
RECURSIVE IsNotLevel(_)
IsNotLevel(e) == e[1] = "kw" \/ (e[1] = "not" /\ IsNotLevel(e[2]))

RECURSIVE IsAndLevel(_)
IsAndLevel(e) == IsNotLevel(e) \/ (e[1] = "and" /\ IsAndLevel(e[2]) /\ IsNotLevel(e[3]))

RECURSIVE IsOrLevel(_)
IsOrLevel(e) == IsAndLevel(e) \/ (e[1] = "or" /\ IsOrLevel(e[2]) /\ IsAndLevel(e[3]))

\* the tokens of an expression read from left to right
RECURSIVE InOrder(_)
InOrder(e) ==
    IF e[1] = "kw" THEN <<e[2]>>
    ELSE IF e[1] = "not" THEN <<NotTok>> \o InOrder(e[2])
    ELSE IF e[1] = "and" THEN InOrder(e[2]) \o <<AndTok>> \o InOrder(e[3])
    ELSE InOrder(e[2]) \o <<OrTok>> \o InOrder(e[3])

SameTokens(toks, out) ==
    /\ Len(toks) = Len(out)
    /\ \A i \in 1..Len(toks) : out[i] = toks[i] \/ out[i] = ToLower(toks[i])

\* C24: NOT binds tighter than AND, AND tighter than OR, AND and OR group to
\* the left and parentheses override: an expression without parentheses that
\* parses is a left-nested OR of left-nested ANDs of NOT chains over the
\* tokens in their order, the five examples parse to the stated trees, and
\* every keyword leaf is lower-case.
C24_Precedence ==
    /\ (parseOut.done /\ parseOut.ok /\ NoParens(tokenize(parseIn)))
           => (IsOrLevel(parseOut.e) /\ SameTokens(tokenize(parseIn), InOrder(parseOut.e)))
    /\ (parseOut.done /\ parseOut.ok)
           => \A i \in 1..Len(ExtractKeywords(parseOut.e)) :
                  ToLower(ExtractKeywords(parseOut.e)[i]) = ExtractKeywords(parseOut.e)[i]
    /\ ParsesTo(Text(<<KwA, AndTok, <<"B">>, OrTok, <<"c">>>>),
                OrExpr(AndExpr(Kw("a"), Kw("b")), Kw("c")))
    /\ ParsesTo(Text(<<KwA, OrTok, <<"B">>, AndTok, <<"c">>>>),
                OrExpr(Kw("a"), AndExpr(Kw("b"), Kw("c"))))
    /\ ParsesTo(KwAndParen, AndExpr(Kw("a"), OrExpr(Kw("b"), Kw("c"))))
    /\ ParsesTo(KwAndParenSpaced, AndExpr(Kw("a"), OrExpr(Kw("b"), Kw("c"))))
    /\ ParsesTo(Text(<<KwA, AndTok, <<"B">>, AndTok, <<"c">>>>),
                AndExpr(AndExpr(Kw("a"), Kw("b")), Kw("c")))
    /\ ParsesTo(Text(<<NotTok, KwA, AndTok, <<"B">>>>), AndExpr(NotExpr(Kw("a")), Kw("b")))

\* a AND B AND c has been parsed, to the AND of (a AND b) and c
C24_Witness ==
    /\ parseOut.done
    /\ parseIn = Text(<<KwA, AndTok, <<"B">>, AndTok, <<"c">>>>)
    /\ parseOut.e = AndExpr(AndExpr(Kw("a"), Kw("b")), Kw("c"))

IsBinary(t) == t \in {AndTok, OrTok}

IsKeywordTok(t) == t \notin {AndTok, OrTok, NotTok, LParen, RParen}

\* the number of parentheses open after the first n tokens
RECURSIVE Depth(_, _)
Depth(toks, n) ==
    IF n = 0 THEN 0
    ELSE Depth(toks, n - 1) + (IF toks[n] = LParen THEN 1 ELSE IF toks[n] = RParen THEN -1 ELSE 0)

\* a closing parenthesis with none open, or one left open
Unbalanced(toks) ==
    \/ \E n \in 1..Len(toks) : Depth(toks, n) < 0
    \/ Depth(toks, Len(toks)) # 0

\* AND or OR with no operand on one side, or NOT with none after it
MissingOperand(toks) ==
    \E i \in 1..Len(toks) :
        \/ /\ IsBinary(toks[i])
           /\ \/ i = 1
              \/ i = Len(toks)
              \/ toks[i - 1] \in {LParen, AndTok, OrTok, NotTok}
              \/ toks[i + 1] \in {RParen, AndTok, OrTok}
        \/ /\ toks[i] = NotTok
           /\ \/ i = Len(toks)
              \/ toks[i + 1] \in {RParen, AndTok, OrTok}

\* a complete operand directly followed by the start of another one
Unconsumed(toks) ==
    \E i \in 1..(Len(toks) - 1) :
        /\ IsKeywordTok(toks[i]) \/ toks[i] = RParen
        /\ IsKeywordTok(toks[i + 1]) \/ toks[i + 1] \in {LParen, NotTok}

\* the nodes of an expression
RECURSIVE Size(_)
Size(e) ==
    IF e[1] = "kw" THEN 1
    ELSE IF e[1] = "not" THEN 1 + Size(e[2])
    ELSE 1 + Size(e[2]) + Size(e[3])

NonParens(toks) == Cardinality({i \in 1..Len(toks) : toks[i] \notin {LParen, RParen}})

\* the parts of C25 on texts that are empty, unbalanced or have tokens left over
RejectsOthers ==
    (parseOut.done /\ (\/ tokenize(parseIn) = <<>>
                       \/ Unbalanced(tokenize(parseIn))
                       \/ Unconsumed(tokenize(parseIn))))
        => ~parseOut.ok

\* C25: Parse returns an error, and no expression, for a text that is empty
\* or blank, has an unbalanced or stray parenthesis, has an operator with a
\* missing operand, or has tokens left after a complete expression; an
\* expression it returns is built from all the tokens, never from a prefix.
C25_RejectsMalformed ==
    /\ RejectsOthers
    /\ (parseOut.done /\ MissingOperand(tokenize(parseIn))) => ~parseOut.ok
    /\ (parseOut.done /\ ~parseOut.ok) => parseOut.e = <<>>
    /\ (parseOut.done /\ parseOut.ok) => Size(parseOut.e) = NonParens(tokenize(parseIn))

\* the text "a OR OR" has been parsed to the OR of a and the keyword or
C25_Witness ==
    /\ parseOut.done
    /\ parseIn = Text(<<KwA, OrTok, OrTok>>)
    /\ parseOut.ok
    /\ parseOut.e = OrExpr(Kw("a"), KeywordExpr(<<"o", "r">>))

\* the rule file with the one rule whose keywords are the text
OneRuleFile(text) == RuleFile(<<Config("r1", text, "critical", TRUE)>>)

\* texts in which NOT directly follows an operand
NotAfterOperandTexts == {KwReadmeFeature, KwReadmeRule, Text(<<KwA, NotTok, <<"B">>>>)}

\* C26: an expression in which NOT directly follows an operand, as in the
\* documented '(paypal OR stripe) AND login NOT official', is a valid rule:
\* it parses, a rule file holding it loads, and the expression is false when
\* the keyword after NOT is among the keywords found.
C26_NotAfterOperandIsValid ==
    (parseOut.done /\ parseIn \in NotAfterOperandTexts)
        => /\ parseOut.ok
           /\ \A r \in LoadRules(OneRuleFile(parseIn)) : ~r.err
           /\ ~ExprEvaluate(parseOut.e, Range(ExtractKeywords(parseOut.e)))

\* Parse has returned an error for the text of the README's feature list
C26_Witness ==
    /\ parseOut.done
    /\ parseIn = KwReadmeFeature
    /\ ~parseOut.ok
    /\ \A r \in LoadRules(OneRuleFile(parseIn)) : r.err

(***************************************************************************)
(* the order of the rules                                                  *)
(***************************************************************************)

\* the position of a priority in critical, high, medium, low
Rank(p) == CHOOSE k \in 1..4 : <<"critical", "high", "medium", "low">>[k] = p

InPriorityOrder(rules) ==
    /\ \A i \in 1..Len(rules) : rules[i].Priority \in {"critical", "high", "medium", "low"}
    /\ \A i, j \in 1..Len(rules) : i < j => Rank(rules[i].Priority) <= Rank(rules[j].Priority)
    /\ \A i \in 1..Len(rules) : rules[i].Order = i - 1

\* C27: after a successful load the rules of the engine are in the order
\* critical, high, medium, low and the Order of each rule is its index; this
\* holds for the engine a reload has built and for the published engine.
C27_RulesInPriorityOrder ==
    /\ adm.pc = "built" => InPriorityOrder(adm.engine.Rules)
    /\ ~RuleEngine.null => InPriorityOrder(RuleEngine.Rules)

\* a file with the low rule before the critical one has been loaded and
\* published with the critical rule first
C27_Witness ==
    /\ adm.status = "rules reloaded"
    /\ rulesFile = FileTwo
    /\ Len(RuleEngine.Rules) = 2
    /\ RuleEngine.Rules[1].Name = "r1" /\ RuleEngine.Rules[1].Priority = "critical"
    /\ RuleEngine.Rules[2].Name = "r2" /\ RuleEngine.Rules[2].Order = 1

\* the position of the rule of this name in the file
FilePos(file, name) == CHOOSE k \in 1..Len(file.rules) : file.rules[k].name = name

\* C28: the sort by priority is stable: in the engine a load has built, rules
\* of equal priority stand in the order of the file.
C28_TiesKeepFileOrder ==
    adm.pc = "built" =>
        \A i, j \in 1..Len(adm.engine.Rules) :
            (i < j /\ adm.engine.Rules[i].Priority = adm.engine.Rules[j].Priority)
                => FilePos(adm.file, adm.engine.Rules[i].Name)
                       < FilePos(adm.file, adm.engine.Rules[j].Name)

\* a load of the file with two high rules has built an engine with the
\* second rule of the file first
C28_Witness ==
    /\ adm.pc = "built"
    /\ adm.file = FileTies
    /\ adm.engine.Rules[1].Name = "r2"

(***************************************************************************)
(* store errors                                                            *)
(***************************************************************************)

\* a step in which worker w flushes a batch
FlushStep(w) == flushLog' # flushLog /\ flushLog'[Len(flushLog')].w = w

\* every match of the batch has a record under its key in its partition
Stored(tables, batch) == \A i \in 1..Len(batch) : RowsOfKey(tables, batch[i]) # {}

\* C29: a store error during a flush does not stop or block the worker: the
\* error is recorded, the worker stays in its loop with an empty buffer and
\* an armed timer, so the failed batch does not remain in the buffer; it
\* goes on receiving (the channel is drained), every buffer is flushed again
\* later, and a flush made while the database works stores its batch.
C29_StoreErrorDoesNotStopWorker ==
    /\ [][\A w \in Workers :
              (FlushStep(w) /\ ws'[w].err)
                  => (ws'[w].pc = "run" /\ ws'[w].batch = <<>> /\ ws'[w].timer = "armed")]_vars
    /\ [][\A w \in Workers :
              (FlushStep(w) /\ ~dbFault) => (~ws'[w].err /\ Stored(db', FlushedNow))]_vars
    /\ (MatchChan # <<>>) ~> (MatchChan = <<>>)
    /\ \A w \in Workers : (ws[w].batch # <<>>) ~> (ws[w].batch = <<>>)

\* worker w has flushed twice: the first batch failed and none of its
\* records is stored, the second one is stored
C29_Witness ==
    \E w \in Workers : \E i, j \in 1..Len(flushLog) :
        /\ i < j
        /\ flushLog[i].w = w /\ flushLog[j].w = w
        /\ \A k \in 1..Len(flushLog[i].batch) : RowsOfKey(db, flushLog[i].batch[k]) = {}
        /\ Stored(db, flushLog[j].batch)
        /\ ~ws[w].err
        /\ ws[w].pc = "run"

(***************************************************************************)
(* the start of the retention sweeper                                      *)
(***************************************************************************)

\* the values main configures from the environment
ConfiguredRetention == RetentionFromEnv(env.PARTITION_RETENTION_DAYS, DefaultRetentionDays)
ConfiguredInterval == IntervalFromEnv(env.CLEANUP_INTERVAL_HOURS, DefaultCleanupIntervalHours)

\* C31: the sweeper starts with the configured values: the cleanup at
\* startup runs with the retention configured from the environment, and the
\* ticker of the sweeper is created with the configured interval.
C31_SweeperStartsConfigured ==
    /\ [][(startPc = "cleanup" /\ startPc' = "sweeper")
              => PartitionRetentionDays = ConfiguredRetention]_vars
    /\ [][(sweeper.pc = "new" /\ sweeper'.pc = "ticking")
              => sweeper'.period = NewTicker(clock, ConfiguredInterval).period]_vars

\* the program serves with CLEANUP_INTERVAL_HOURS = 48 read from the
\* environment while its sweeper ticks at the default interval, and the
\* cleanup at startup has kept a partition older than the configured retention
C31_Witness ==
    /\ startPc = "serving"
    /\ env.CLEANUP_INTERVAL_HOURS = <<"4", "8">>
    /\ CleanupIntervalHours = 48
    /\ sweeper.pc = "ticking"
    /\ sweeper.period = NewTicker(0, DefaultCleanupIntervalHours).period
    /\ env.PARTITION_RETENTION_DAYS = <<"4", "8">>
    /\ tableForDate((SweepDay - 2) * TicksPerDay - TicksPerDay) \notin DOMAIN db
    /\ tableForDate(TicksPerDay) \in DOMAIN db

(***************************************************************************)
(* the transaction of a partition                                          *)
(***************************************************************************)

\* the rows of a table, none when the table does not exist
RowsIn(tables, tbl) == IF tbl \in DOMAIN tables THEN tables[tbl] ELSE {}

BatchTables(batch) == {tableForDate(batch[i].Timestamp) : i \in 1..Len(batch)}

\* every record of the batch for the table has a row under its key
AllApplied(tables, batch, tbl) ==
    \A i \in 1..Len(batch) :
        tableForDate(batch[i].Timestamp) = tbl
            => \E row \in RowsIn(tables, tbl) : StoreKey(row) = StoreKey(MatchRow(batch[i]))

\* C32: a flush leaves every partition of its batch either with all records
\* of the batch for it applied (a record whose key is present counts as
\* applied) or with the rows it had before; the rows it adds are rows of the
\* batch, and a failure inside the inserts of a partition adds none.
C32_PartitionAtomic ==
    [][\A w \in Workers : FlushStep(w) =>
          \A tbl \in BatchTables(FlushedNow) :
              /\ \/ AllApplied(db', FlushedNow, tbl)
                 \/ RowsIn(db', tbl) = RowsIn(db, tbl)
              /\ RowsIn(db', tbl) \subseteq
                     RowsIn(db, tbl) \cup {MatchRow(FlushedNow[i]) : i \in 1..Len(FlushedNow)}]_vars

\* a flush of two records with different keys for one partition has failed
\* at its second insert, and the partition holds neither record
C32_Witness ==
    /\ dbFault
    /\ faultAt = 2
    /\ flushLog # <<>>
    /\ Len(flushLog[Len(flushLog)].batch) = 2
    /\ ws[flushLog[Len(flushLog)].w].err
    /\ BatchTables(flushLog[Len(flushLog)].batch) = {tableForDate(0)}
    /\ StoreKey(MatchRow(flushLog[Len(flushLog)].batch[1]))
           # StoreKey(MatchRow(flushLog[Len(flushLog)].batch[2]))
    /\ db[tableForDate(0)] = {}

\* the match of handler h's request
Sending(h) == MatchesToSend(h)[1]

\* handler h finds the bus full in this step and drops its match
DropStep(h) == hs[h].pc = "evaluated" /\ hs'[h].pc = "done" /\ hs'[h].dropped > 0

\* m is taken from the bus in this step and is the newest record of the ring
ReceivedNow(m) ==
    /\ MatchChan # <<>>
    /\ m = Head(MatchChan)
    /\ MatchChan' = Tail(MatchChan)
    /\ RecentMatches' # <<>>
    /\ RecentMatches'[Len(RecentMatches')] = m

\* C33: a worker's buffer only grows by the match it takes from the bus, and
\* that match is pushed to the ring in the same step, before any flush; a
\* flushed batch is the buffer, with the match just received and pushed when
\* the flush is by size; the ring only changes by such a push; a handler that
\* finds the bus full leaves the bus, the ring, the buffers and the store as
\* they are.
C33_RingBeforeStore ==
    [][/\ \A w \in Workers :
             /\ FlushStep(w) =>
                    \/ FlushedNow = ws[w].batch
                    \/ /\ ReceivedNow(FlushedNow[Len(FlushedNow)])
                       /\ FlushedNow = Append(ws[w].batch, Head(MatchChan))
             /\ ws'[w].batch # ws[w].batch =>
                    \/ ws'[w].batch = <<>> /\ FlushStep(w)
                    \/ /\ ws'[w].batch = Append(ws[w].batch, ws'[w].batch[Len(ws'[w].batch)])
                       /\ ReceivedNow(ws'[w].batch[Len(ws'[w].batch)])
       /\ RecentMatches' # RecentMatches =>
             /\ ReceivedNow(Head(MatchChan))
             /\ \A i \in 1..(Len(RecentMatches') - 1) :
                    \E j \in 1..Len(RecentMatches) : RecentMatches'[i] = RecentMatches[j]
       /\ \A h \in Handlers : DropStep(h) =>
             UNCHANGED <<MatchChan, RecentMatches, ws, db, flushLog>>]_vars

\* a batch of two records has been flushed by size while the match of the
\* last request, found nowhere in the ring or the store, was dropped
C33_Witness ==
    /\ flushLog # <<>>
    /\ flushLog[Len(flushLog)].kind = "size"
    /\ Len(flushLog[Len(flushLog)].batch) = 2
    /\ hs[1].pc = "done"
    /\ hs[1].dropped = 1
    /\ \A i \in 1..Len(RecentMatches) : RecentMatches[i] # Sending(1)
    /\ \A k \in 1..Len(flushLog) : \A i \in 1..Len(flushLog[k].batch) :
           flushLog[k].batch[i] # Sending(1)
    /\ \A tbl \in DOMAIN db : MatchRow(Sending(1)) \notin db[tbl]

\* C34: under fair scheduling of the workers and their timers, with the bus
\* open: a buffer never reaches batch_size records between two steps and a
\* flushed batch never exceeds it; no worker is blocked in its timer
\* handling; a flush passes the whole buffer to the store; and every buffer
\* that holds a record is flushed later, by size or by the timer.
C34_BufferedIsFlushed ==
    /\ [](\A w \in Workers : ws[w].pc = "run" /\ Len(ws[w].batch) < BatchSize)
    /\ [][\A w \in Workers : FlushStep(w) =>
              /\ Len(FlushedNow) <= BatchSize
              /\ SubSeq(FlushedNow, 1, Len(ws[w].batch)) = ws[w].batch
              /\ flushLog'[Len(flushLog')].kind \in {"size", "timeout"}]_vars
    /\ \A w \in Workers : \A k \in 0..MaxStoreRequests :
           (ws[w].batch # <<>> /\ Len(flushLog) = k)
               ~> (\E j \in (k + 1)..Len(flushLog) : flushLog[j].w = w)

\* a worker whose timer had fired flushed by size, stopped and drained the
\* timer, and later flushed a single record on the timer
C34_Witness ==
    /\ Len(flushLog) >= 2
    /\ \E k \in 1..(Len(flushLog) - 1) :
           /\ flushLog[k].kind = "size"
           /\ flushLog[k + 1].kind = "timeout"
           /\ flushLog[k + 1].w = flushLog[k].w
           /\ Len(flushLog[k + 1].batch) = 1
    /\ \A w \in Workers : ws[w].pc = "run"

\* the assignments: the sets of keywords that are true
Assignments == SUBSET {ToLower(k) : k \in KeywordToks}

EvaluatesLike(e1, e2) ==
    \A S \in Assignments : ExprEvaluate(e1, S) = ExprEvaluate(e2, S)

\* Parse has returned for the text an expression that evaluates like the
\* one parsed from the other text
ParsedLike(text, other) ==
    (parseOut.done /\ parseIn = text) =>
        (parseOut.ok /\ Parse(other).ok /\ EvaluatesLike(parseOut.e, Parse(other).e))

\* the expression with every NOT of a NOT removed
RECURSIVE WithoutDoubleNot(_)
WithoutDoubleNot(e) ==
    IF e[1] = "kw" THEN e
    ELSE IF e[1] = "not"
    THEN IF e[2][1] = "not" THEN WithoutDoubleNot(e[2][2]) ELSE NotExpr(WithoutDoubleNot(e[2]))
    ELSE <<e[1], WithoutDoubleNot(e[2]), WithoutDoubleNot(e[3])>>

\* C35: NOT NOT k is parsed and evaluates like k under every assignment,
\* x AND NOT (NOT k) evaluates like x AND k, and every parsed expression
\* evaluates like the expression without its double negations.
C35_DoubleNotIsIdentity ==
    /\ \A k \in KeywordToks : ParsedLike(Text(<<NotTok, NotTok, k>>), k)
    /\ \A x \in KeywordToks, k \in KeywordToks :
           /\ ParsedLike(AndNotNot(x, k), Text(<<x, AndTok, k>>))
           /\ ParsedLike(AndNotNotSpaced(x, k), Text(<<x, AndTok, k>>))
    /\ (parseOut.done /\ parseOut.ok) =>
           EvaluatesLike(parseOut.e, WithoutDoubleNot(parseOut.e))

\* a AND NOT (NOT B) has been parsed into a AND NOT NOT b, which is true
\* exactly when a and b are
C35_Witness ==
    /\ parseOut.done
    /\ parseIn = AndNotNot(<<"a">>, <<"B">>)
    /\ parseOut.e = AndExpr(Kw("a"), NotExpr(NotExpr(Kw("b"))))
    /\ \A S \in Assignments : ExprEvaluate(parseOut.e, S) = ({<<"a">>, <<"b">>} \subseteq S)

\* the engine handler h loaded has positive keywords and none of them occurs
\* in a domain of its event
NoPositiveOccurs(h) ==
    /\ PositiveOf(hs[h].engine) # {}
    /\ \A k \in PositiveOf(hs[h].engine) : ~OccursIn(k, hs[h].allDomains)

\* some enabled rule of the engine is true when no keyword is
TrueOnNothing(e) ==
    \E i \in 1..Len(e.Rules) : e.Rules[i].Enabled /\ ExprEvaluate(e.Rules[i].Expression, {})

NoMutationInFlight == \A a \in Admins : muts[a].pc \in {"idle", "done"}

\* the engines LoadRules can return for the file on disk
LoadableAs == {r.engine : r \in {x \in LoadRules(rulesFile) : ~x.err}}

\* C37: once an admin mutation has returned and none is in flight, the rule
\* file on disk is loadable and the published engine is an engine that
\* LoadRules returns for it: the file and the engine hold the same rules.
C37_FileMatchesEngine ==
    (NoMutationInFlight /\ \E a \in Admins : muts[a].pc = "done") =>
        (LoadableAs # {} /\ RuleEngine \in LoadableAs)

\* a create request with an expression that does not parse has been answered
\* with the reload error: its rule is in the file, the file does not load,
\* and the engine published is still the one of the old file
C37_Witness ==
    /\ muts[1].pc = "done"
    /\ muts[1].op.kind = "create"
    /\ muts[1].status = "failed to reload rules"
    /\ muts[2].pc = "idle"
    /\ rulesFile = RuleFile(Append(FileTwo.rules, Config("r3", KwDangling, "low", TRUE)))
    /\ LoadableAs = {}
    /\ RuleEngine \in {r.engine : r \in LoadRules(FileTwo)}

\* C38: under one engine the matches built for one event carry one keyword
\* value, whatever the order in which Find enumerates the keywords, so a
\* partition table never holds two records of one cert id.
C38_OneRecordPerEvent ==
    /\ \A m1 \in Flushed : \A m2 \in Flushed :
           m1.CertID = m2.CertID => m1.Keyword = m2.Keyword
    /\ \A tbl \in DOMAIN db : \A r1 \in db[tbl] : \A r2 \in db[tbl] :
           r1.cert_id = r2.cert_id => r1 = r2

\* the event c2 was ingested twice on the first day and its partition holds
\* two records of it, one under the keyword a,b and one under b,a
C38_Witness ==
    /\ tableForDate(0) \in DOMAIN db
    /\ \E r1 \in db[tableForDate(0)] : \E r2 \in db[tableForDate(0)] :
           /\ r1.cert_id = "c2" /\ r2.cert_id = "c2"
           /\ r1.keyword = <<"a", ",", "b">>
           /\ r2.keyword = <<"b", ",", "a">>
           /\ r1.matched_rule = r2.matched_rule
           /\ r1.domains = r2.domains

\* handler h ends its search in this step, with or without keywords
SearchStep(h) == hs[h].pc = "loaded" /\ hs'[h].pc \in {"found", "done"}

\* handler h ends its evaluation in this step, with or without a rule match
EvaluateStep(h) == hs[h].pc = "found" /\ hs'[h].pc \in {"evaluated", "done"}

\* C39: total_matches never exceeds total_certs, whatever the interleaving
\* of the handlers: every handler between its search and its evaluation has
\* been counted in total_certs and not yet in total_matches; total_certs
\* grows by one exactly when a search ends with keywords, total_matches by
\* one exactly when an evaluation ends with a rule match, and a match that
\* is dropped at the full bus stays counted.
C39_MatchesWithinCerts ==
    /\ [](TotalMatches + Cardinality({h \in Handlers : hs[h].pc = "found"}) <= TotalCerts)
    /\ [][\A h \in Handlers : SearchStep(h) =>
              /\ TotalCerts' = TotalCerts + (IF hs'[h].matchedKeywords # <<>> THEN 1 ELSE 0)
              /\ TotalMatches' = TotalMatches]_vars
    /\ [][\A h \in Handlers : EvaluateStep(h) =>
              /\ TotalMatches' = TotalMatches + (IF hs'[h].ruleMatch.null THEN 0 ELSE 1)
              /\ TotalCerts' = TotalCerts]_vars
    /\ [][(\A h \in Handlers : ~SearchStep(h) /\ ~EvaluateStep(h)) =>
              UNCHANGED <<TotalCerts, TotalMatches>>]_vars

\* two handlers have counted their certificates and their rule matches; the
\* match of one is on the bus and the match of the other was dropped
C39_Witness ==
    /\ TotalCerts = 2
    /\ TotalMatches = 2
    /\ Len(MatchChan) = 1
    /\ \E h \in Handlers : hs[h].pc = "done" /\ hs[h].dropped = 1 /\ ~hs[h].ruleMatch.null

\* AND or OR stands where an operand is expected: at the start of the text or
\* after an operator or an opening parenthesis
OperatorAsOperand(toks) ==
    \E i \in 1..Len(toks) :
        /\ toks[i] \in {AndTok, OrTok}
        /\ (i = 1 \/ toks[i - 1] \in {AndTok, OrTok, NotTok, LParen})

\* the leaves an operator word gives when it is taken for a keyword
OperatorLeaves == {ToLower(AndTok), ToLower(OrTok)}

\* C40: Parse returns an error for every text in which AND or OR stands
\* where an operand is expected, as in AND, OR a, a AND AND b and a OR OR;
\* no expression it returns has the leaf and or the leaf or, unless the text
\* holds that word as a token in lower case.
C40_OperatorNeverKeyword ==
    /\ (parseOut.done /\ OperatorAsOperand(tokenize(parseIn))) => ~parseOut.ok
    /\ (parseOut.done /\ parseOut.ok /\ Range(tokenize(parseIn)) \cap OperatorLeaves = {})
           => Range(ExtractKeywords(parseOut.e)) \cap OperatorLeaves = {}

\* the text AND has been parsed to the keyword and
C40_Witness ==
    /\ parseOut.done
    /\ parseIn = AndTok
    /\ parseOut.ok
    /\ parseOut.e = KeywordExpr(ToLower(AndTok))

====
